---- MODULE Spec2Model ----
(***************************************************************************)
(* lrvm: a register virtual machine (src/src/vm.rs) and its two-pass       *)
(* assembler (src/src/assembler).  Rust vectors are 0-based, TLA+          *)
(* sequences 1-based: byte i of a vector v is v[i + 1].                    *)
(*                                                                         *)
(* TLC's integers are 32 bits wide, the program counter is a usize        *)
(* (64 bits): pc is kept as a pair <<hi, lo>> that stands for              *)
(* hi * 2^24 + lo modulo 2^64, with 0 <= lo < 2^24; a negative hi stands   *)
(* for a value of 2^63 or more (what `x as usize` yields for a negative    *)
(* i32 x).  Program lengths stay below 2^24.                               *)
(***************************************************************************)
EXTENDS Integers, Sequences, FiniteSets, TLC

VARIABLES
    vm,          \* the VM object (struct VM, vm.rs:48-83)
    vm_state,    \* the VM's thread: "idle", "running" (in the loop of run()), "panicked"
    panic,       \* why the thread panicked ("none": it did not)
    run_result,  \* the Vec<VMEvent> the last run() returned (<<>>: none returned yet)
    run_entry,   \* the VM as it was when the last run() was entered
    step_reads,  \* the indices of vm.program the last execute_instruction read
    step_op,     \* the opcode the last execute_instruction decoded ("none": no decode)
    stdout,      \* what PRTS printed, one entry per print!
    asm,         \* the Assembler object (struct Assembler, assembler/mod.rs:53-72)
    asm_result,  \* the Result the last assemble() returned
    asm_input,   \* the source text the last assemble() was given
    threads      \* the threads Scheduler::get_thread spawned, each with the VM moved into it

vars == <<vm, vm_state, panic, run_result, run_entry, step_reads, step_op, stdout,
          asm, asm_result, asm_input, threads>>

vm_vars == <<vm, vm_state, panic, run_result, run_entry, step_reads, step_op, stdout>>
asm_vars == <<asm, asm_result, asm_input>>

(***************************************************************************)
(* Program constants                                                       *)
(***************************************************************************)
PIE_HEADER_PREFIX == <<45, 50, 49, 45>>
PIE_HEADER_LENGTH == 64
DEFAULT_HEAP_STARTING_SIZE == 64
NumRegisters == 32
MaxI32 == 2147483647
MinI32 == (-2147483647) - 1

(***************************************************************************)
(* Bounds of the model                                                     *)
(***************************************************************************)
MaxRuns == 2         \* calls of run() on one VM
MaxInstr == 4        \* instructions of an assembled program
MaxBody == 2         \* encoded instructions of a hand-made program body
MaxHeap == 80        \* heap bytes: a step that would allocate more is not taken
MaxPrints == 2       \* strings printed: a step that would print more is not taken
MaxCounted == 4      \* instructions an Assembler has counted: beyond, no further assemble()

(***************************************************************************)
(* Sequences of bytes                                                      *)
(***************************************************************************)
Zeros(n) == [i \in 1..n |-> 0]

RECURSIVE Concat(_)
Concat(ss) == IF ss = <<>> THEN <<>> ELSE Head(ss) \o Concat(Tail(ss))

Last(s) == s[Len(s)]

\* write_u32::<LittleEndian>: the four bytes of a u32, least significant first
\* mutation: the four bytes most significant first
WriteU32LE_BigEndian(n) ==
    << (n \div 16777216) % 256, (n \div 65536) % 256, (n \div 256) % 256, n % 256 >>

WriteU32LE(n) ==
    << n % 256, (n \div 256) % 256, (n \div 65536) % 256, (n \div 16777216) % 256 >>

\* usize values (see the head of the module)
Usize(n) == << n \div 16777216, n % 16777216 >>

\* wrapping addition and subtraction of two usize values
UAdd(x, y) == << x[1] + y[1] + ((x[2] + y[2]) \div 16777216), (x[2] + y[2]) % 16777216 >>
USub(x, y) == << x[1] - y[1] + ((x[2] - y[2]) \div 16777216), (x[2] - y[2]) % 16777216 >>

\* x < y as unsigned 64-bit numbers
ULess(x, y) ==
    IF (x[1] < 0) # (y[1] < 0) THEN y[1] < 0
    ELSE x[1] < y[1] \/ (x[1] = y[1] /\ x[2] < y[2])

\* the sum, the difference leave the 64 bits (a panic where overflow is checked)
UAddOverflows(x, y) ==
    IF x[1] < 0 /\ y[1] < 0 THEN TRUE
    ELSE IF x[1] >= 0 /\ y[1] >= 0 THEN FALSE
    ELSE UAdd(x, y)[1] >= 0
USubOverflows(x, y) == ULess(x, y)

\* read_u32::<LittleEndian> of the four bytes b, as usize
ReadU32LE(b) == << b[4], b[1] + 256 * b[2] + 65536 * b[3] >>

(***************************************************************************)
(* Opcode (src/src/instruction.rs)                                         *)
(***************************************************************************)
OpcodeNames ==
    << "LOAD", "ADD", "SUB", "MUL", "DIV", "HLT", "JMP", "JMPF", "JMPB", "EQ",
       "NEQ", "GTE", "LTE", "LT", "GT", "JMPE", "NOP", "ALOC", "INC", "DEC",
       "DJMPE", "PRTS", "LOADF64", "ADDF64", "SUBF64", "MULF64", "DIVF64",
       "EQF64", "NEQF64", "GTF64", "GTEF64", "LTF64", "LTEF64", "SHL", "SHR",
       "AND", "OR", "XOR", "NOT", "LUI", "CLOOP", "LOOP", "LOADM", "SETM",
       "PUSH", "POP", "CALL", "RET" >>

\* impl From<u8> for Opcode
OpcodeFromU8(b) == IF b \in 0..47 THEN OpcodeNames[b + 1] ELSE "IGL"

\* impl Into<u8> for Opcode
OpcodeIntoU8(op) ==
    IF op = "IGL" THEN 100
    ELSE CHOOSE b \in 0..47 : OpcodeNames[b + 1] = op

(***************************************************************************)
(* 32-bit two's-complement arithmetic, without leaving the 32-bit range    *)
(***************************************************************************)
Abs(x) == IF x < 0 THEN -x ELSE x

\* the four two's-complement bytes of an i32, least significant first
I32Bytes(x) == << x % 256, (x \div 256) % 256, (x \div 65536) % 256, (x \div 16777216) % 256 >>

\* the i32 whose two's-complement bytes are b (least significant first)
I32FromBytes(b) ==
    b[1] + 256 * b[2] + 65536 * b[3] + 16777216 * (IF b[4] >= 128 THEN b[4] - 256 ELSE b[4])

AddOverflows(a, b) == (b > 0 /\ a > MaxI32 - b) \/ (b < 0 /\ a < MinI32 - b)

\* a.wrapping_add(b)
WrappingAdd(a, b) ==
    IF ~AddOverflows(a, b) THEN a + b
    ELSE IF b > 0 THEN (a - MaxI32 - 1) + (b - MaxI32 - 1)
    ELSE (a + MaxI32 + 1) + (b + MaxI32 + 1)

\* -b overflows only for b = i32::MIN, where a - b = a + 2^31
SubOverflows(a, b) == IF b = MinI32 THEN a >= 0 ELSE AddOverflows(a, -b)

\* a.wrapping_sub(b)
WrappingSub(a, b) ==
    IF b = MinI32 THEN (IF a >= 0 THEN (a - MaxI32) - 1 ELSE (a + MaxI32) + 1)
    ELSE WrappingAdd(a, -b)

\* a.wrapping_mul(b): schoolbook product of the bytes, low four bytes kept
WrappingMul(a, b) ==
    LET x == I32Bytes(a)
        y == I32Bytes(b)
        c0 == x[1] * y[1]
        c1 == x[1] * y[2] + x[2] * y[1] + (c0 \div 256)
        c2 == x[1] * y[3] + x[2] * y[2] + x[3] * y[1] + (c1 \div 256)
        c3 == x[1] * y[4] + x[2] * y[3] + x[3] * y[2] + x[4] * y[1] + (c2 \div 256)
    IN  I32FromBytes(<< c0 % 256, c1 % 256, c2 % 256, c3 % 256 >>)

\* Rust's / on i32 truncates toward zero (b # 0, not MIN / -1)
TruncDiv(a, b) ==
    IF (a >= 0) = (b > 0) THEN Abs(a) \div Abs(b) ELSE -(Abs(a) \div Abs(b))

\* Rust's % on i32: the remainder has the sign of the dividend
TruncRem(a, b) == a - b * TruncDiv(a, b)

DivOverflows(a, b) == a = MinI32 /\ b = -1

MulOverflows(a, b) ==
    /\ a # 0
    /\ b # 0
    /\ \/ DivOverflows(WrappingMul(a, b), a)
       \/ DivOverflows(a, b) \/ DivOverflows(b, a)
       \/ TruncDiv(WrappingMul(a, b), a) # b

(***************************************************************************)
(* VM (src/src/vm.rs)                                                      *)
(***************************************************************************)
StartEvent == [event |-> "Start", code |-> 0]
\* mutation: run() logs a second Start where it logs its GracefulStop
GracefulStop_AsStart(c) == [event |-> "Start", code |-> c]

GracefulStop(c) == [event |-> "GracefulStop", code |-> c]
Crash(c) == [event |-> "Crash", code |-> c]

\* VM::new()
NewVM ==
    [ registers |-> [r \in 0..(NumRegisters - 1) |-> 0],
      float_registers |-> [r \in 0..(NumRegisters - 1) |-> <<0, 1>>],
      program |-> <<>>,
      ro_data |-> <<>>,
      heap |-> Zeros(DEFAULT_HEAP_STARTING_SIZE),
      pc |-> Usize(0),
      reminder |-> 0,
      equal_flag |-> FALSE,
      events |-> <<>> ]

\* self.pc >= self.program.len(), pc being a usize
PcPastEnd(v) == ~ULess(v.pc, Usize(Len(v.program)))

\* self.program[i]; reading it panics unless InProgram(v, i)
InProgram(v, i) == i >= 0 /\ i < Len(v.program)
ProgramAt(v, i) == v.program[i + 1]

\* mutation: every header passes the check
verify_header_AcceptsAll(v) == TRUE

\* VM::verify_header; the slice program[0..4] panics on a shorter program
verify_header(v) == SubSeq(v.program, 1, 4) = PIE_HEADER_PREFIX

\* VM::get_starting_offset; the slice program[64..68] panics on a shorter program
get_starting_offset(v) == ReadU32LE(SubSeq(v.program, 65, 68))

\* VM::next_16_bits: the two bytes at i, i + 1, high byte first
next_16_bits(v, i) == ProgramAt(v, i) * 256 + ProgramAt(v, i + 1)

\* `number as i32` of a u16 widens without changing the value
U16AsI32(n) == n

\* the outcomes of one execute_instruction: the VM after it, the returned
\* Option<u32> ({} is None, {c} is Some(c)), a panic, the bytes read, the opcode
Continue(v, reads, op) ==
    [vm |-> v, ret |-> {}, panic |-> "none", reads |-> reads, op |-> op]
\* mutation: every return of Some(code) returns Some(0)
Halt_CodeZero(v, c, reads, op) ==
    [vm |-> v, ret |-> {0}, panic |-> "none", reads |-> reads, op |-> op]

Halt(v, c, reads, op) ==
    [vm |-> v, ret |-> {c}, panic |-> "none", reads |-> reads, op |-> op]
Panic(v, why, reads, op) ==
    [vm |-> v, ret |-> {}, panic |-> why, reads |-> reads, op |-> op]

\* integer overflow panics in a build with overflow checks and wraps without
Overflowing(v, wrapped, reads, op) ==
    { Panic(v, "overflow", reads, op), Continue(wrapped, reads, op) }

\* register1 (+, -, *, /) register2 and the remainder DIV records
AluResult(op, a, b) ==
    CASE op = "ADD" -> WrappingAdd(a, b)
      [] op = "SUB" -> WrappingSub(a, b)
      [] op = "MUL" -> WrappingMul(a, b)
      [] op = "DIV" -> TruncDiv(a, b)

AluOverflows(op, a, b) ==
    CASE op = "ADD" -> AddOverflows(a, b)
      [] op = "SUB" -> SubOverflows(a, b)
      [] op = "MUL" -> MulOverflows(a, b)
      [] op = "DIV" -> FALSE

\* vm.rs:170-191  ADD, SUB, MUL, DIV; p is the index of the opcode byte
ExecAlu(v, p, op) ==
    IF ~InProgram(v, p + 1) THEN { Panic(v, "program_index", {p}, op) }
    ELSE IF ProgramAt(v, p + 1) >= NumRegisters
    THEN { Panic(v, "register_index", {p, p + 1}, op) }
    ELSE IF ~InProgram(v, p + 2) THEN { Panic(v, "program_index", {p, p + 1}, op) }
    ELSE IF ProgramAt(v, p + 2) >= NumRegisters
    THEN { Panic(v, "register_index", {p, p + 1, p + 2}, op) }
    ELSE
      LET a == v.registers[ProgramAt(v, p + 1)]
          b == v.registers[ProgramAt(v, p + 2)]
          rd == {p, p + 1, p + 2}
      IN  IF op = "DIV" /\ b = 0 THEN { Panic(v, "divide_by_zero", rd, op) }
          ELSE IF op = "DIV" /\ DivOverflows(a, b) THEN { Panic(v, "overflow", rd, op) }
          ELSE
            LET fin(res) ==
                  IF ~InProgram(v, p + 3) THEN Panic(v, "program_index", rd, op)
                  ELSE IF ProgramAt(v, p + 3) >= NumRegisters
                  THEN Panic(v, "register_index", rd \cup {p + 3}, op)
                  ELSE Continue(
                         [v EXCEPT !.registers[ProgramAt(v, p + 3)] = res,
                                   !.pc = Usize(p + 4),
                                   !.reminder = IF op = "DIV" THEN TruncRem(a, b) ELSE @],
                         rd \cup {p + 3}, op)
            IN  IF AluOverflows(op, a, b)
                THEN { Panic(v, "overflow", rd, op), fin(AluResult(op, a, b)) }
                ELSE { fin(AluResult(op, a, b)) }

\* mutation: the two registers are compared the other way round
Compare_Swapped(op, a, b) ==
    CASE op = "EQ" -> b = a
      [] op = "NEQ" -> b # a
      [] op = "GTE" -> b >= a
      [] op = "LTE" -> b <= a
      [] op = "LT" -> b < a
      [] op = "GT" -> b > a

\* the comparison each of EQ, NEQ, GTE, LTE, LT, GT makes
Compare(op, a, b) ==
    CASE op = "EQ" -> a = b
      [] op = "NEQ" -> a # b
      [] op = "GTE" -> a >= b
      [] op = "LTE" -> a <= b
      [] op = "LT" -> a < b
      [] op = "GT" -> a > b

\* vm.rs:212-247  EQ, NEQ, GTE, LTE, LT, GT
ExecCompare(v, p, op) ==
    IF ~InProgram(v, p + 1) THEN { Panic(v, "program_index", {p}, op) }
    ELSE IF ProgramAt(v, p + 1) >= NumRegisters
    THEN { Panic(v, "register_index", {p, p + 1}, op) }
    ELSE IF ~InProgram(v, p + 2) THEN { Panic(v, "program_index", {p, p + 1}, op) }
    ELSE IF ProgramAt(v, p + 2) >= NumRegisters
    THEN { Panic(v, "register_index", {p, p + 1, p + 2}, op) }
    ELSE IF ~InProgram(v, p + 3) THEN { Panic(v, "program_index", {p, p + 1, p + 2}, op) }
    ELSE { Continue(
             [v EXCEPT !.equal_flag = Compare(op, v.registers[ProgramAt(v, p + 1)],
                                                  v.registers[ProgramAt(v, p + 2)]),
                       !.pc = Usize(p + 4)],
             {p, p + 1, p + 2, p + 3}, op) }

\* vm.rs:164-169  LOAD
ExecLoad(v, p) ==
    IF ~InProgram(v, p + 1) THEN { Panic(v, "program_index", {p}, "LOAD") }
    ELSE IF ~InProgram(v, p + 2) THEN { Panic(v, "program_index", {p, p + 1}, "LOAD") }
    ELSE IF ~InProgram(v, p + 3)
    THEN { Panic(v, "program_index", {p, p + 1, p + 2}, "LOAD") }
    ELSE IF ProgramAt(v, p + 1) >= NumRegisters
    THEN { Panic(v, "register_index", {p, p + 1, p + 2, p + 3}, "LOAD") }
    ELSE { Continue(
             [v EXCEPT !.registers[ProgramAt(v, p + 1)] = U16AsI32(next_16_bits(v, p + 2)),
                       !.pc = Usize(p + 4)],
             {p, p + 1, p + 2, p + 3}, "LOAD") }

\* vm.rs:200-211, 248-256  JMP, JMPF, JMPB, JMPE: pc after the register byte is p + 2
ExecJump(v, p, op) ==
    IF ~InProgram(v, p + 1) THEN { Panic(v, "program_index", {p}, op) }
    ELSE IF ProgramAt(v, p + 1) >= NumRegisters
    THEN { Panic(v, "register_index", {p, p + 1}, op) }
    ELSE
      LET value == v.registers[ProgramAt(v, p + 1)]
          rd == {p, p + 1}
      IN  CASE op = "JMP" -> { Continue([v EXCEPT !.pc = Usize(value)], rd, op) }
            [] op = "JMPF" ->
                 \* pc += value as usize
                 IF UAddOverflows(Usize(p + 2), Usize(value))
                 THEN Overflowing(v, [v EXCEPT !.pc = UAdd(Usize(p + 2), Usize(value))],
                                  rd, op)
                 ELSE { Continue([v EXCEPT !.pc = UAdd(Usize(p + 2), Usize(value))],
                                 rd, op) }
            [] op = "JMPB" ->
                 \* pc -= value as usize
                 IF USubOverflows(Usize(p + 2), Usize(value))
                 THEN Overflowing(v, [v EXCEPT !.pc = USub(Usize(p + 2), Usize(value))],
                                  rd, op)
                 ELSE { Continue([v EXCEPT !.pc = USub(Usize(p + 2), Usize(value))],
                                 rd, op) }
            [] op = "JMPE" ->
                 IF v.equal_flag
                 THEN { Continue([v EXCEPT !.pc = Usize(value)], rd, op) }
                 ELSE { Continue([v EXCEPT !.pc = Usize(p + 2)], rd, op) }

\* Vec::resize(new_len, 0)
Resize(heap, new_len) ==
    IF new_len <= Len(heap) THEN SubSeq(heap, 1, new_len)
    ELSE heap \o Zeros(new_len - Len(heap))

\* vm.rs:257-262  ALOC
ExecAloc(v, p) ==
    IF ~InProgram(v, p + 1) THEN { Panic(v, "program_index", {p}, "ALOC") }
    ELSE IF ProgramAt(v, p + 1) >= NumRegisters
    THEN { Panic(v, "register_index", {p, p + 1}, "ALOC") }
    ELSE
      LET bytes == v.registers[ProgramAt(v, p + 1)]
          new_end == WrappingAdd(Len(v.heap), bytes)
          rd == {p, p + 1}
          \* a negative new_end is a length above isize::MAX: resize panics
          fin == IF new_end < 0 THEN Panic(v, "capacity_overflow", rd, "ALOC")
                 ELSE Continue([v EXCEPT !.heap = Resize(v.heap, new_end), !.pc = Usize(p + 2)],
                               rd, "ALOC")
      IN  IF AddOverflows(Len(v.heap), bytes)
          THEN { Panic(v, "overflow", rd, "ALOC"), fin }
          ELSE { fin }

\* the index of the first zero byte of ro at or after index i (0-based), or -1:
\* the scan `while slice[ending_offset] != 0` of PRTS, which panics at the end
RECURSIVE ScanZero(_, _)
ScanZero(ro, i) ==
    IF i >= Len(ro) THEN -1
    ELSE IF ro[i + 1] = 0 THEN i
    ELSE ScanZero(ro, i + 1)

\* std::str::from_utf8 accepts the slice; bytes are kept to ASCII (below 128)
ValidUtf8(bytes) == \A i \in 1..Len(bytes) : bytes[i] < 128

\* vm.rs:263-286  PRTS: the outcome and what it prints
ExecPrts(v, p) ==
    IF ~InProgram(v, p + 1) THEN { Panic(v, "program_index", {p}, "PRTS") }
    ELSE IF ~InProgram(v, p + 2) THEN { Panic(v, "program_index", {p, p + 1}, "PRTS") }
    ELSE
      LET starting_offset == next_16_bits(v, p + 1)
          ending_offset == ScanZero(v.ro_data, starting_offset)
          rd == {p, p + 1, p + 2}
      IN  IF ending_offset < 0 THEN { Panic(v, "ro_data_index", rd, "PRTS") }
          ELSE { Continue([v EXCEPT !.pc = Usize(p + 3)], rd, "PRTS") }

\* mutation: PRTS prints the buffer from the offset to its end
PrtsOutput_ToTheEnd(v, p) ==
    LET starting_offset == next_16_bits(v, p + 1)
        ending_offset == ScanZero(v.ro_data, starting_offset)
        slice == SubSeq(v.ro_data, starting_offset + 1, Len(v.ro_data))
    IN  IF ending_offset >= 0 /\ ValidUtf8(slice) THEN << slice >> ELSE << >>

PrtsOutput(v, p) ==
    LET starting_offset == next_16_bits(v, p + 1)
        ending_offset == ScanZero(v.ro_data, starting_offset)
        slice == SubSeq(v.ro_data, starting_offset + 1, ending_offset)
    IN  IF ending_offset >= 0 /\ ValidUtf8(slice) THEN << slice >> ELSE << >>

\* i32::wrapping_shl / wrapping_shr: the amount is taken modulo 32; shr keeps the sign
RECURSIVE WrappingShl(_, _)
WrappingShl(x, n) ==
    IF n % 32 = 0 THEN x ELSE WrappingShl(WrappingAdd(x, x), (n % 32) - 1)

RECURSIVE WrappingShr(_, _)
WrappingShr(x, n) ==
    IF n % 32 = 0 THEN x ELSE WrappingShr(x \div 2, (n % 32) - 1)

\* mutation: a shift-amount byte of 0 shifts by no bit
ExecShift_ZeroIsZero(v, p, op) ==
    IF ~InProgram(v, p + 1) THEN { Panic(v, "program_index", {p}, op) }
    ELSE IF ~InProgram(v, p + 2) THEN { Panic(v, "program_index", {p, p + 1}, op) }
    ELSE IF ProgramAt(v, p + 1) >= NumRegisters
    THEN { Panic(v, "register_index", {p, p + 1, p + 2}, op) }
    ELSE
      LET reg_num == ProgramAt(v, p + 1)
          num_bits == ProgramAt(v, p + 2)
          res == IF op = "SHL" THEN WrappingShl(v.registers[reg_num], num_bits)
                 ELSE WrappingShr(v.registers[reg_num], num_bits)
      IN  { Continue([v EXCEPT !.registers[reg_num] = res, !.pc = Usize(p + 3)],
                     {p, p + 1, p + 2}, op) }

\* vm.rs:351-368  SHL, SHR
ExecShift(v, p, op) ==
    IF ~InProgram(v, p + 1) THEN { Panic(v, "program_index", {p}, op) }
    ELSE IF ~InProgram(v, p + 2) THEN { Panic(v, "program_index", {p, p + 1}, op) }
    ELSE IF ProgramAt(v, p + 1) >= NumRegisters
    THEN { Panic(v, "register_index", {p, p + 1, p + 2}, op) }
    ELSE
      LET reg_num == ProgramAt(v, p + 1)
          num_bits == IF ProgramAt(v, p + 2) = 0 THEN 16 ELSE ProgramAt(v, p + 2)
          res == IF op = "SHL" THEN WrappingShl(v.registers[reg_num], num_bits)
                 ELSE WrappingShr(v.registers[reg_num], num_bits)
      IN  { Continue([v EXCEPT !.registers[reg_num] = res, !.pc = Usize(p + 3)],
                     {p, p + 1, p + 2}, op) }

\* vm.rs:370-373  the default branch decodes a second byte for its message
ExecDefault(v, p, op) ==
    IF ~InProgram(v, p + 1) THEN { Panic(v, "program_index", {p}, op) }
    ELSE { Continue([v EXCEPT !.pc = Usize(p + 2)], {p, p + 1}, op) }

(***************************************************************************)
(* f64 values: a finite one is the fraction <<n, d>> in lowest terms with  *)
(* d > 0; <<1, 0>> and <<-1, 0>> are the infinities and <<0, 0>> is NaN.   *)
(* Rounding is not modelled: the values the model computes (small integers *)
(* and their quotients) have denominators far below 2^52, so two distinct  *)
(* finite values differ by more than f64::EPSILON = 2^-52.                 *)
(***************************************************************************)
RECURSIVE Gcd(_, _)
Gcd(a, b) == IF b = 0 THEN a ELSE Gcd(b, a % b)

Frac(n, d) ==
    LET g == Gcd(Abs(n), Abs(d))
        sg == IF d < 0 THEN -1 ELSE 1
    IN  << sg * (n \div g), sg * (d \div g) >>

NaN == << 0, 0 >>
IsNaN(x) == x = NaN
IsInf(x) == x[2] = 0 /\ x[1] # 0
Sign(n) == IF n < 0 THEN -1 ELSE IF n > 0 THEN 1 ELSE 0

\* f64::from(u16)
F64FromU16(n) == << n, 1 >>

FNeg(x) == << -x[1], x[2] >>

FAdd(x, y) ==
    IF IsNaN(x) \/ IsNaN(y) THEN NaN
    ELSE IF IsInf(x) /\ IsInf(y) THEN (IF x = y THEN x ELSE NaN)
    ELSE IF IsInf(x) THEN x
    ELSE IF IsInf(y) THEN y
    ELSE Frac(x[1] * y[2] + y[1] * x[2], x[2] * y[2])

FSub(x, y) == FAdd(x, FNeg(y))

FMul(x, y) ==
    IF IsNaN(x) \/ IsNaN(y) THEN NaN
    ELSE IF IsInf(x) \/ IsInf(y)
    THEN (IF x[1] = 0 \/ y[1] = 0 THEN NaN ELSE << Sign(x[1]) * Sign(y[1]), 0 >>)
    ELSE Frac(x[1] * y[1], x[2] * y[2])

FDiv(x, y) ==
    IF IsNaN(x) \/ IsNaN(y) THEN NaN
    ELSE IF IsInf(x) THEN (IF IsInf(y) THEN NaN
                           ELSE << Sign(x[1]) * (IF y[1] < 0 THEN -1 ELSE 1), 0 >>)
    ELSE IF IsInf(y) THEN << 0, 1 >>
    ELSE IF y[1] = 0 THEN (IF x[1] = 0 THEN NaN ELSE << Sign(x[1]), 0 >>)
    ELSE Frac(x[1] * y[2], x[2] * y[1])

FAbs(x) == << Abs(x[1]), x[2] >>

\* x < y, x > y on f64: false when either is NaN
FLess(x, y) ==
    /\ ~IsNaN(x) /\ ~IsNaN(y)
    /\ x # y
    /\ IF IsInf(x) THEN x[1] < 0
       ELSE IF IsInf(y) THEN y[1] > 0
       ELSE x[1] * y[2] < y[1] * x[2]

FEq(x, y) == ~IsNaN(x) /\ ~IsNaN(y) /\ x = y

\* d < EPSILON, d > EPSILON, d >= EPSILON for d = (x - y).abs()
BelowEpsilon(d) == d = << 0, 1 >>
AboveEpsilon(d) == ~IsNaN(d) /\ d # << 0, 1 >>
AtLeastEpsilon(d) == ~IsNaN(d) /\ d # << 0, 1 >>

\* (register1 % register2) as usize: the truncated remainder, NaN and negatives to 0
FRemAsUsize(x, y) ==
    IF IsNaN(x) \/ IsNaN(y) \/ IsInf(x) \/ y[1] = 0 THEN 0
    ELSE IF IsInf(y) THEN (IF x[1] < 0 THEN 0 ELSE x[1] \div x[2])
    ELSE LET q == FDiv(x, y)
             t == TruncDiv(q[1], q[2])
             r == FSub(x, FMul(y, << t, 1 >>))
         IN  IF r[1] < 0 THEN 0 ELSE r[1] \div r[2]

FAluResult(op, a, b) ==
    CASE op = "ADDF64" -> FAdd(a, b)
      [] op = "SUBF64" -> FSub(a, b)
      [] op = "MULF64" -> FMul(a, b)
      [] op = "DIVF64" -> FDiv(a, b)

\* the flag each of EQF64 .. LTEF64 sets (vm.rs:316-348)
FCompare(op, a, b) ==
    LET d == FAbs(FSub(a, b))
    IN  CASE op = "EQF64" -> BelowEpsilon(d)
          [] op = "NEQF64" -> ~BelowEpsilon(d)
          [] op = "GTF64" -> AboveEpsilon(d) /\ FLess(b, a)
          [] op = "GTEF64" -> AtLeastEpsilon(d) /\ (FLess(b, a) \/ FEq(a, b))
          [] op = "LTF64" -> AboveEpsilon(d) /\ FLess(a, b)
          [] op = "LTEF64" -> AtLeastEpsilon(d) /\ (FLess(a, b) \/ FEq(a, b))

\* vm.rs:287-291  LOADF64
ExecLoadF64(v, p) ==
    IF ~InProgram(v, p + 1) THEN { Panic(v, "program_index", {p}, "LOADF64") }
    ELSE IF ~InProgram(v, p + 2) THEN { Panic(v, "program_index", {p, p + 1}, "LOADF64") }
    ELSE IF ~InProgram(v, p + 3)
    THEN { Panic(v, "program_index", {p, p + 1, p + 2}, "LOADF64") }
    ELSE IF ProgramAt(v, p + 1) >= NumRegisters
    THEN { Panic(v, "register_index", {p, p + 1, p + 2, p + 3}, "LOADF64") }
    ELSE { Continue(
             [v EXCEPT !.float_registers[ProgramAt(v, p + 1)] =
                           F64FromU16(next_16_bits(v, p + 2)),
                       !.pc = Usize(p + 4)],
             {p, p + 1, p + 2, p + 3}, "LOADF64") }

\* vm.rs:292-312  ADDF64, SUBF64, MULF64, DIVF64
ExecFAlu(v, p, op) ==
    IF ~InProgram(v, p + 1) THEN { Panic(v, "program_index", {p}, op) }
    ELSE IF ProgramAt(v, p + 1) >= NumRegisters
    THEN { Panic(v, "register_index", {p, p + 1}, op) }
    ELSE IF ~InProgram(v, p + 2) THEN { Panic(v, "program_index", {p, p + 1}, op) }
    ELSE IF ProgramAt(v, p + 2) >= NumRegisters
    THEN { Panic(v, "register_index", {p, p + 1, p + 2}, op) }
    ELSE IF ~InProgram(v, p + 3) THEN { Panic(v, "program_index", {p, p + 1, p + 2}, op) }
    ELSE IF ProgramAt(v, p + 3) >= NumRegisters
    THEN { Panic(v, "register_index", {p, p + 1, p + 2, p + 3}, op) }
    ELSE
      LET a == v.float_registers[ProgramAt(v, p + 1)]
          b == v.float_registers[ProgramAt(v, p + 2)]
      IN  { Continue(
              [v EXCEPT !.float_registers[ProgramAt(v, p + 3)] = FAluResult(op, a, b),
                        !.pc = Usize(p + 4),
                        !.reminder = IF op = "DIVF64" THEN FRemAsUsize(a, b) ELSE @],
              {p, p + 1, p + 2, p + 3}, op) }

\* vm.rs:313-350  EQF64, NEQF64, GTF64, GTEF64, LTF64, LTEF64
ExecFCompare(v, p, op) ==
    IF ~InProgram(v, p + 1) THEN { Panic(v, "program_index", {p}, op) }
    ELSE IF ProgramAt(v, p + 1) >= NumRegisters
    THEN { Panic(v, "register_index", {p, p + 1}, op) }
    ELSE IF ~InProgram(v, p + 2) THEN { Panic(v, "program_index", {p, p + 1}, op) }
    ELSE IF ProgramAt(v, p + 2) >= NumRegisters
    THEN { Panic(v, "register_index", {p, p + 1, p + 2}, op) }
    ELSE IF ~InProgram(v, p + 3) THEN { Panic(v, "program_index", {p, p + 1, p + 2}, op) }
    ELSE { Continue(
             [v EXCEPT !.equal_flag = FCompare(op, v.float_registers[ProgramAt(v, p + 1)],
                                                   v.float_registers[ProgramAt(v, p + 2)]),
                       !.pc = Usize(p + 4)],
             {p, p + 1, p + 2, p + 3}, op) }

(***************************************************************************)
(* VM::execute_instruction (vm.rs:158-376): the set of its outcomes        *)
(***************************************************************************)
execute_instruction(v) ==
    IF PcPastEnd(v) THEN { Halt(v, 1, {}, "none") }
    ELSE
      LET p == v.pc[2]
          op == OpcodeFromU8(ProgramAt(v, p))
          d == [v EXCEPT !.pc = Usize(p + 1)]    \* after decode_opcode
      IN  CASE op = "LOAD" -> ExecLoad(v, p)
            [] op \in {"ADD", "SUB", "MUL", "DIV"} -> ExecAlu(v, p, op)
            [] op = "HLT" -> { Halt(d, 0, {p}, op) }
            [] op = "IGL" -> { Halt(d, 1, {p}, op) }
            [] op \in {"JMP", "JMPF", "JMPB", "JMPE"} -> ExecJump(v, p, op)
            [] op \in {"EQ", "NEQ", "GTE", "LTE", "LT", "GT"} -> ExecCompare(v, p, op)
            [] op = "ALOC" -> ExecAloc(v, p)
            [] op = "PRTS" -> ExecPrts(v, p)
            [] op = "LOADF64" -> ExecLoadF64(v, p)
            [] op \in {"ADDF64", "SUBF64", "MULF64", "DIVF64"} -> ExecFAlu(v, p, op)
            [] op \in {"EQF64", "NEQF64", "GTF64", "GTEF64", "LTF64", "LTEF64"} ->
                 ExecFCompare(v, p, op)
            [] op \in {"SHL", "SHR"} -> ExecShift(v, p, op)
            [] op = "AND" -> { Continue(d, {p}, op) }
            [] OTHER -> ExecDefault(v, p, op)

\* what the step prints to stdout (only PRTS prints there)
StepOutput(v) ==
    IF ~PcPastEnd(v) /\ OpcodeFromU8(ProgramAt(v, v.pc[2])) = "PRTS"
       /\ InProgram(v, v.pc[2] + 2)
    THEN PrtsOutput(v, v.pc[2]) ELSE << >>

(***************************************************************************)
(* Tokens and instructions (assembler/mod.rs:40-50,                        *)
(* assembler/instruction_parsers.rs:15-23).  An absent Option is NoToken.  *)
(* A string is the sequence of its bytes.                                  *)
(***************************************************************************)
NoToken == [kind |-> "None", num |-> 0, name |-> "", str |-> <<>>]
Op(code) == [kind |-> "Op", num |-> 0, name |-> code, str |-> <<>>]
Register(n) == [kind |-> "Register", num |-> n, name |-> "", str |-> <<>>]
IntegerOperand(v) == [kind |-> "IntegerOperand", num |-> v, name |-> "", str |-> <<>>]
LabelDeclaration(n) == [kind |-> "LabelDeclaration", num |-> 0, name |-> n, str |-> <<>>]
LabelUsage(n) == [kind |-> "LabelUsage", num |-> 0, name |-> n, str |-> <<>>]
Directive(n) == [kind |-> "Directive", num |-> 0, name |-> n, str |-> <<>>]
IrString(bytes) == [kind |-> "IrString", num |-> 0, name |-> "", str |-> bytes]

\* what instruction_combined builds: label? opcode operand? operand? operand?
OpcodeInstruction(label, code, o1, o2, o3) ==
    [opcode |-> Op(code), label |-> label, directive |-> NoToken,
     operand1 |-> o1, operand2 |-> o2, operand3 |-> o3]

\* what directive_combined builds: label? directive operand? operand? operand?
DirectiveInstruction(label, name, o1, o2, o3) ==
    [opcode |-> NoToken, label |-> label, directive |-> Directive(name),
     operand1 |-> o1, operand2 |-> o2, operand3 |-> o3]

is_label(i) == i.label # NoToken
is_opcode(i) == i.opcode # NoToken
is_directive(i) == i.directive # NoToken
has_operands(i) == i.operand1 # NoToken \/ i.operand2 # NoToken \/ i.operand3 # NoToken

\* Option<String>: {} is None, {s} is Some(s)
get_label_name(i) == IF i.label.kind = "LabelDeclaration" THEN {i.label.name} ELSE {}
get_directive_name(i) == IF i.directive.kind = "Directive" THEN {i.directive.name} ELSE {}
get_string_constant(i) == IF i.operand1.kind = "IrString" THEN {i.operand1.str} ELSE {}

(***************************************************************************)
(* SymbolTable (assembler/symbols.rs); an offset is an Option<u32>         *)
(***************************************************************************)
NewSymbol(name, symbol_type) == [name |-> name, symbol_type |-> symbol_type, offset |-> {}]

\* mutation: the table is replaced by the new symbol
add_symbol_Replaces(symbols, sym) == << sym >>

add_symbol(symbols, sym) == Append(symbols, sym)

\* mutation: no name is ever found in the table
has_symbol_FindsNothing(symbols, name) == FALSE

has_symbol(symbols, name) == \E k \in 1..Len(symbols) : symbols[k].name = name

\* the index of the first symbol called name (0: there is none)
FirstSymbol(symbols, name) ==
    IF has_symbol(symbols, name)
    THEN CHOOSE k \in 1..Len(symbols) :
           /\ symbols[k].name = name
           /\ \A j \in 1..(k - 1) : symbols[j].name # name
    ELSE 0

\* iter_mut().any(..) stops at the first symbol with the name
set_symbol_offset(symbols, name, offset) ==
    IF FirstSymbol(symbols, name) = 0 THEN symbols
    ELSE [symbols EXCEPT ![FirstSymbol(symbols, name)].offset = {offset}]

symbol_value(symbols, name) ==
    IF FirstSymbol(symbols, name) = 0 THEN {}
    ELSE symbols[FirstSymbol(symbols, name)].offset

(***************************************************************************)
(* AssemblerInstruction::to_bytes (assembler/instruction_parsers.rs:34-145)*)
(***************************************************************************)
\* mutation: the low byte is emitted first
U16BytesBE_LowFirst(value) == << value % 256, (value % 65536) \div 256 >>

\* `value as u16` then high byte, low byte
U16BytesBE(value) == << (value % 65536) \div 256, value % 256 >>

extract_operand(t, symbols) ==
    CASE t.kind = "Register" -> << t.num >>
      [] t.kind = "IntegerOperand" -> U16BytesBE(t.num)
      [] t.kind = "LabelUsage" ->
           IF symbol_value(symbols, t.name) = {} THEN << >>
           ELSE LET value == CHOOSE x \in symbol_value(symbols, t.name) : TRUE
                IN  << (value \div 256) % 256, value % 256 >>
      [] OTHER -> << >>

\* while 0 < results.len() && results.len() < 4 { results.push(0) }
PadTo4(results) ==
    IF 0 < Len(results) /\ Len(results) < 4
    THEN results \o Zeros(4 - Len(results)) ELSE results

to_bytes(i, symbols) ==
    PadTo4( (IF i.opcode.kind = "Op" THEN << OpcodeIntoU8(i.opcode.name) >> ELSE << >>)
            \o extract_operand(i.operand1, symbols)
            \o extract_operand(i.operand2, symbols)
            \o extract_operand(i.operand3, symbols) )

\* prepend_header (assembler/mod.rs:28-38)
prepend_header(append_bytes) ==
    PIE_HEADER_PREFIX \o Zeros(PIE_HEADER_LENGTH - Len(PIE_HEADER_PREFIX)) \o append_bytes

(***************************************************************************)
(* Assembler (assembler/mod.rs)                                            *)
(***************************************************************************)
AsmError(kind, instruction, directive) ==
    [kind |-> kind, instruction |-> instruction, directive |-> directive]

\* Assembler::new()
NewAssembler ==
    [ phase |-> "First",
      symbols |-> << >>,
      ro |-> << >>,
      bytecode |-> << >>,
      ro_offset |-> 0,
      sections |-> << >>,
      current_section |-> "None",
      current_instruction |-> 0,
      errors |-> << >> ]

\* impl From<&str> for AssemblerSection
SectionFrom(name) ==
    IF name = "data" THEN "Data" ELSE IF name = "code" THEN "Code" ELSE "Unknown"

process_section_header(a, header_name) ==
    IF SectionFrom(header_name) = "Unknown" THEN a
    ELSE [a EXCEPT !.sections = Append(@, SectionFrom(header_name)),
                   !.current_section = SectionFrom(header_name)]

\* mutation: the string of an .asciiz line without a label is stored as well
handle_asciiz_StoresUnlabelled(a, i) ==
    IF a.phase # "First" THEN a
    ELSE IF get_string_constant(i) = {} THEN a
    ELSE
      LET s == CHOOSE x \in get_string_constant(i) : TRUE
      IN  [a EXCEPT !.symbols = IF get_label_name(i) = {} THEN @
                                ELSE set_symbol_offset(@, CHOOSE x \in get_label_name(i) : TRUE,
                                                       a.ro_offset),
                    !.ro = @ \o s \o << 0 >>,
                    !.ro_offset = @ + Len(s) + 1]

\* mutation: the symbol receives the offset behind its string
handle_asciiz_OffsetBehind(a, i) ==
    IF a.phase # "First" THEN a
    ELSE IF get_string_constant(i) = {} THEN a
    ELSE IF get_label_name(i) = {} THEN a
    ELSE
      LET s == CHOOSE x \in get_string_constant(i) : TRUE
          name == CHOOSE x \in get_label_name(i) : TRUE
      IN  [a EXCEPT !.symbols = set_symbol_offset(@, name, a.ro_offset + Len(s) + 1),
                    !.ro = @ \o s \o << 0 >>,
                    !.ro_offset = @ + Len(s) + 1]

handle_asciiz(a, i) ==
    IF a.phase # "First" THEN a
    ELSE IF get_string_constant(i) = {} THEN a
    ELSE IF get_label_name(i) = {} THEN a
    ELSE
      LET s == CHOOSE x \in get_string_constant(i) : TRUE
          name == CHOOSE x \in get_label_name(i) : TRUE
      IN  [a EXCEPT !.symbols = set_symbol_offset(@, name, a.ro_offset),
                    !.ro = @ \o s \o << 0 >>,
                    !.ro_offset = @ + Len(s) + 1]

process_directive(a, i) ==
    IF get_directive_name(i) = {} THEN a
    ELSE
      LET directive_name == CHOOSE x \in get_directive_name(i) : TRUE
      IN  IF has_operands(i)
          THEN IF directive_name = "asciiz" THEN handle_asciiz(a, i)
               ELSE [a EXCEPT !.errors =
                       Append(@, AsmError("UnknownDirectiveFound", 0, directive_name))]
          ELSE process_section_header(a, directive_name)

process_label_declaration(a, i) ==
    IF get_label_name(i) = {}
    THEN [a EXCEPT !.errors =
            Append(@, AsmError("StringConstantDeclaredWithoutLabel",
                               a.current_instruction, ""))]
    ELSE
      LET name == CHOOSE x \in get_label_name(i) : TRUE
      IN  IF has_symbol(a.symbols, name)
          THEN [a EXCEPT !.errors = Append(@, AsmError("SymbolAlreadyDeclared", 0, ""))]
          ELSE [a EXCEPT !.symbols = add_symbol(@, NewSymbol(name, "Label"))]

\* mutation: a label in front of every section header is reported and declared all
\* the same
FirstPhaseStep_DeclaresAnyway(a, i) ==
    LET a1 == IF is_label(i)
              THEN IF a.current_section # "None" THEN process_label_declaration(a, i)
                   ELSE process_label_declaration(
                          [a EXCEPT !.errors =
                             Append(@, AsmError("NoSegmentDeclarationFound",
                                                a.current_instruction, ""))], i)
              ELSE a
        a2 == IF is_directive(i) THEN process_directive(a1, i) ELSE a1
    IN  [a2 EXCEPT !.current_instruction = @ + 1]

\* the body of the loop of process_first_phase for one instruction
FirstPhaseStep(a, i) ==
    LET a1 == IF is_label(i)
              THEN IF a.current_section # "None" THEN process_label_declaration(a, i)
                   ELSE [a EXCEPT !.errors =
                           Append(@, AsmError("NoSegmentDeclarationFound",
                                              a.current_instruction, ""))]
              ELSE a
        a2 == IF is_directive(i) THEN process_directive(a1, i) ELSE a1
    IN  [a2 EXCEPT !.current_instruction = @ + 1]

\* mutation: pass 1 stops at the first instruction that leaves an error
RECURSIVE FirstPhaseLoop_FailFast(_, _)
FirstPhaseLoop_FailFast(a, instructions) ==
    IF instructions = << >> \/ a.errors # << >> THEN a
    ELSE FirstPhaseLoop_FailFast(FirstPhaseStep(a, Head(instructions)), Tail(instructions))

RECURSIVE FirstPhaseLoop(_, _)
FirstPhaseLoop(a, instructions) ==
    IF instructions = << >> THEN a
    ELSE FirstPhaseLoop(FirstPhaseStep(a, Head(instructions)), Tail(instructions))

process_first_phase(a, instructions) ==
    [FirstPhaseLoop(a, instructions) EXCEPT !.phase = "Second"]

\* the loop of process_second_phase: the assembler after it and the bytes it made
RECURSIVE SecondPhaseLoop(_, _, _)
SecondPhaseLoop(a, program, instructions) ==
    IF instructions = << >> THEN [asm |-> a, program |-> program]
    ELSE
      LET i == Head(instructions)
          program1 == IF is_opcode(i) THEN program \o to_bytes(i, a.symbols) ELSE program
          a1 == IF is_directive(i) THEN process_directive(a, i) ELSE a
      IN  SecondPhaseLoop([a1 EXCEPT !.current_instruction = @ + 1], program1,
                          Tail(instructions))

process_second_phase(a, instructions) ==
    SecondPhaseLoop([a EXCEPT !.current_instruction = 0], << >>, instructions)

write_pie_header(a) ==
    LET header == PIE_HEADER_PREFIX \o WriteU32LE(Len(a.ro))
    IN  header \o Zeros(PIE_HEADER_LENGTH - Len(header))

\* a line of source text: the instruction it spells, and whether white space is
\* written between the colon of its label and what follows
SourceLine(i, gap) == [instruction |-> i, gap |-> gap]

\* instruction_combined: tuple((opt(label_declaration), opcode, ...)); opcode is
\* alpha1 and skips no white space, so `test: inc $0` is no instruction
instruction_combined(line) ==
    is_opcode(line.instruction) /\ ~(is_label(line.instruction) /\ line.gap)

\* directive_combined: directive_declaration skips the white space before the dot
directive_combined(line) == is_directive(line.instruction)

\* mutation: a line neither parser accepts is skipped and parsing goes on
RECURSIVE Many1_SkipsBadLines(_)
Many1_SkipsBadLines(raw) ==
    IF raw = << >> THEN << >>
    ELSE (IF instruction_combined(Head(raw)) \/ directive_combined(Head(raw))
          THEN << Head(raw).instruction >> ELSE << >>) \o Many1_SkipsBadLines(Tail(raw))

\* many1(alt((instruction, directive))): the instructions of the lines up to the first
\* line neither parser accepts
RECURSIVE Many1(_)
Many1(raw) ==
    IF raw = << >> THEN << >>
    ELSE IF instruction_combined(Head(raw)) \/ directive_combined(Head(raw))
    THEN << Head(raw).instruction >> \o Many1(Tail(raw))
    ELSE << >>

\* program(raw): Err when not one line parses, else the instructions and the rest
program(raw) ==
    LET instructions == Many1(raw)
    IN  IF instructions = << >>
        THEN [kind |-> "Err", instructions |-> << >>, reminder |-> raw]
        ELSE [kind |-> "Ok", instructions |-> instructions,
              reminder |-> SubSeq(raw, Len(instructions) + 1, Len(raw))]

\* the Result of assemble(): Ok(bytes) or Err(errors), or a panic instead of a Result
NoResult == [kind |-> "none", bytes |-> << >>, errors |-> << >>]
Ok(bytes) == [kind |-> "Ok", bytes |-> bytes, errors |-> << >>]
Err(errors) == [kind |-> "Err", bytes |-> << >>, errors |-> errors]
Panicked == [kind |-> "Panic", bytes |-> << >>, errors |-> << >>]

\* Assembler::assemble: the assembler after it and the Result. debug_assertions is
\* the build: debug_assert!(_reminder.is_empty()) is compiled only into debug builds
assemble(a, raw, debug_assertions) ==
    LET parsed == program(raw)
        instructions == parsed.instructions
        a1 == process_first_phase(a, instructions)
    IN  IF parsed.kind = "Err"
        THEN [asm |-> a, result |-> Err(<< AsmError("ParseError", 0, "") >>)]
        ELSE IF debug_assertions /\ parsed.reminder # << >>
        THEN [asm |-> a, result |-> Panicked]
        ELSE IF a1.errors # << >> THEN [asm |-> a1, result |-> Err(a1.errors)]
        ELSE IF Len(a1.sections) # 2
        THEN LET a2 == [a1 EXCEPT !.errors = Append(@, AsmError("InsufficientSections", 0, ""))]
             IN  [asm |-> a2, result |-> Err(a2.errors)]
        ELSE LET second == process_second_phase(a1, instructions)
             IN  [asm |-> second.asm,
                  result |-> Ok(write_pie_header(second.asm) \o second.program)]

(***************************************************************************)
(* The inputs                                                              *)
(***************************************************************************)
Hi == << 72, 105 >>                     \* 'Hi'
Hello == << 72, 101, 108, 108, 111 >>   \* 'Hello'

\* the lines an assembled program is made of
Lines ==
    { DirectiveInstruction(NoToken, "data", NoToken, NoToken, NoToken),
      DirectiveInstruction(NoToken, "code", NoToken, NoToken, NoToken),
      DirectiveInstruction(LabelDeclaration("a"), "asciiz", IrString(Hi), NoToken, NoToken),
      DirectiveInstruction(LabelDeclaration("b"), "asciiz", IrString(Hello), NoToken, NoToken),
      DirectiveInstruction(NoToken, "asciiz", IrString(Hi), NoToken, NoToken),
      OpcodeInstruction(NoToken, "HLT", NoToken, NoToken, NoToken),
      OpcodeInstruction(NoToken, "LOAD", Register(0), IntegerOperand(0), NoToken),
      OpcodeInstruction(LabelDeclaration("a"), "INC", Register(0), NoToken, NoToken),
      OpcodeInstruction(NoToken, "PRTS", LabelUsage("b"), NoToken, NoToken),
      OpcodeInstruction(NoToken, "LOAD", IntegerOperand(1), IntegerOperand(2),
                        IntegerOperand(3)) }

RECURSIVE SeqsUpTo(_, _)
SeqsUpTo(S, n) ==
    IF n = 0 THEN { << >> }
    ELSE LET shorter == SeqsUpTo(S, n - 1)
         IN  shorter \cup { Append(q, x) : q \in shorter, x \in S }

\* the lines as source text: each without white space after its label, and the
\* labelled instruction also written `a: inc $0`
SourceLines ==
    { SourceLine(i, FALSE) : i \in Lines }
      \cup { SourceLine(OpcodeInstruction(LabelDeclaration("a"), "INC", Register(0),
                                          NoToken, NoToken), TRUE) }

\* test_string of test_assemble_program (assembler/mod.rs:403)
TestAssembleProgram ==
    << SourceLine(DirectiveInstruction(NoToken, "data", NoToken, NoToken, NoToken), FALSE),
       SourceLine(DirectiveInstruction(NoToken, "code", NoToken, NoToken, NoToken), FALSE),
       SourceLine(OpcodeInstruction(NoToken, "LOAD", Register(0), IntegerOperand(100),
                                    NoToken), FALSE),
       SourceLine(OpcodeInstruction(NoToken, "LOAD", Register(1), IntegerOperand(1),
                                    NoToken), FALSE),
       SourceLine(OpcodeInstruction(NoToken, "LOAD", Register(2), IntegerOperand(0),
                                    NoToken), FALSE),
       SourceLine(OpcodeInstruction(LabelDeclaration("test"), "INC", Register(0),
                                    NoToken, NoToken), TRUE),
       SourceLine(OpcodeInstruction(NoToken, "NEQ", Register(0), Register(2), NoToken),
                  FALSE),
       SourceLine(OpcodeInstruction(NoToken, "JMPE", LabelUsage("test"), NoToken,
                                    NoToken), FALSE),
       SourceLine(OpcodeInstruction(NoToken, "HLT", NoToken, NoToken, NoToken), FALSE) >>

\* `.data / b: .asciiz 'Hello' / .code / load $0 #0 / prts @b`
HelloProgram ==
    << SourceLine(DirectiveInstruction(NoToken, "data", NoToken, NoToken, NoToken), FALSE),
       SourceLine(DirectiveInstruction(LabelDeclaration("b"), "asciiz", IrString(Hello),
                                       NoToken, NoToken), TRUE),
       SourceLine(DirectiveInstruction(NoToken, "code", NoToken, NoToken, NoToken), FALSE),
       SourceLine(OpcodeInstruction(NoToken, "LOAD", Register(0), IntegerOperand(0),
                                    NoToken), FALSE),
       SourceLine(OpcodeInstruction(NoToken, "PRTS", LabelUsage("b"), NoToken, NoToken),
                  FALSE) >>

\* `.data / .code / hlt`
HltProgram ==
    << SourceLine(DirectiveInstruction(NoToken, "data", NoToken, NoToken, NoToken), FALSE),
       SourceLine(DirectiveInstruction(NoToken, "code", NoToken, NoToken, NoToken), FALSE),
       SourceLine(OpcodeInstruction(NoToken, "HLT", NoToken, NoToken, NoToken), FALSE) >>

\* `c: .word #1 / .data / a: .asciiz 'Hi' / a: .asciiz 'Hi' / .word #1 / .code / hlt`
ErrorsProgram ==
    << SourceLine(DirectiveInstruction(LabelDeclaration("c"), "word", IntegerOperand(1),
                                       NoToken, NoToken), TRUE),
       SourceLine(DirectiveInstruction(NoToken, "data", NoToken, NoToken, NoToken), FALSE),
       SourceLine(DirectiveInstruction(LabelDeclaration("a"), "asciiz", IrString(Hi),
                                       NoToken, NoToken), TRUE),
       SourceLine(DirectiveInstruction(LabelDeclaration("a"), "asciiz", IrString(Hi),
                                       NoToken, NoToken), TRUE),
       SourceLine(DirectiveInstruction(NoToken, "word", IntegerOperand(1), NoToken,
                                       NoToken), FALSE),
       SourceLine(DirectiveInstruction(NoToken, "code", NoToken, NoToken, NoToken), FALSE),
       SourceLine(OpcodeInstruction(NoToken, "HLT", NoToken, NoToken, NoToken), FALSE) >>

\* `.data / .code / .wrong / hlt`
WrongSectionProgram ==
    << SourceLine(DirectiveInstruction(NoToken, "data", NoToken, NoToken, NoToken), FALSE),
       SourceLine(DirectiveInstruction(NoToken, "code", NoToken, NoToken, NoToken), FALSE),
       SourceLine(DirectiveInstruction(NoToken, "wrong", NoToken, NoToken, NoToken), FALSE),
       SourceLine(OpcodeInstruction(NoToken, "HLT", NoToken, NoToken, NoToken), FALSE) >>

\* `.data / .code / load $0 #0 / load $r #v`
LoadProgram(r, v) ==
    << SourceLine(DirectiveInstruction(NoToken, "data", NoToken, NoToken, NoToken), FALSE),
       SourceLine(DirectiveInstruction(NoToken, "code", NoToken, NoToken, NoToken), FALSE),
       SourceLine(OpcodeInstruction(NoToken, "LOAD", Register(0), IntegerOperand(0),
                                    NoToken), FALSE),
       SourceLine(OpcodeInstruction(NoToken, "LOAD", Register(r), IntegerOperand(v),
                                    NoToken), FALSE) >>

\* `.data / .code / a:inc $0 / eq $0 $1 @a`
LabelOperandProgram ==
    << SourceLine(DirectiveInstruction(NoToken, "data", NoToken, NoToken, NoToken), FALSE),
       SourceLine(DirectiveInstruction(NoToken, "code", NoToken, NoToken, NoToken), FALSE),
       SourceLine(OpcodeInstruction(LabelDeclaration("a"), "INC", Register(0), NoToken,
                                    NoToken), FALSE),
       SourceLine(OpcodeInstruction(NoToken, "EQ", Register(0), Register(1),
                                    LabelUsage("a")), FALSE) >>

\* integer operands around the byte and the 16-bit boundaries
Immediates == { 1, 255, 256, 65535, 65536, 70000 }

LoadPrograms == { LoadProgram(r, v) : r \in { 0, NumRegisters - 1 }, v \in Immediates }

\* the source texts given to assemble()
Programs ==
    (SeqsUpTo(SourceLines, MaxInstr) \ { << >> })
      \cup { TestAssembleProgram, HelloProgram, HltProgram, ErrorsProgram,
             WrongSectionProgram, LabelOperandProgram }
      \cup LoadPrograms \cup { LoadProgram(NumRegisters, 1) }

\* the values the test harness puts in registers 0 and 1 (get_test_vm: 5 and 10)
RegValues == { 0, 5, 10, MaxI32 }

\* encoded instructions a hand-made body is made of
BodyInstrs ==
    { << 0, 0, 0, 0 >>,      \* load $0 #0
      << 1, 0, 1, 2 >>,      \* add $0 $1 $2
      << 2, 1, 0, 2 >>,      \* sub $1 $0 $2
      << 3, 0, 1, 2 >>,      \* mul $0 $1 $2
      << 4, 1, 0, 2 >>,      \* div $1 $0 $2
      << 5, 0, 0, 0 >>,      \* hlt
      << 100, 0, 0, 0 >>,    \* igl
      << 200, 0, 0, 0 >>,    \* a byte that is no opcode
      << 17, 1, 0, 0 >>,     \* aloc $1
      << 1, 0, 1, 40 >> }    \* add $0 $1 $40

Bodies == { Concat(q) : q \in SeqsUpTo(BodyInstrs, MaxBody) }

\* bodies with an opcode that execute_instruction has no arm for, behind the four
\* bytes run() reads as the starting offset: nop / hlt, and a program ending in nop
ReservedBodies ==
    { << 0, 0, 0, 0, 16, 0, 0, 0, 5, 0, 0, 0 >>,
      << 0, 0, 0, 0, 16 >> }

\* a header whose magic prefix is wrong in its first byte
BadHeader == << 46, 50, 49, 45 >> \o Zeros(PIE_HEADER_LENGTH - 4)

\* programs a harness gives run(): a body behind a header or behind a bad header,
\* and a program too short to hold the magic prefix
TestPrograms ==
    { prepend_header(b) : b \in Bodies } \cup { BadHeader \o b : b \in Bodies }
      \cup { << 45, 50 >> }
      \cup { prepend_header(b) : b \in ReservedBodies }

(***************************************************************************)
(* The state after construction, and the operations                        *)
(***************************************************************************)
Init ==
    /\ vm = NewVM
    /\ vm_state = "idle"
    /\ panic = "none"
    /\ run_result = << >>
    /\ run_entry = NewVM
    /\ step_reads = {}
    /\ step_op = "none"
    /\ stdout = << >>
    /\ asm = NewAssembler
    /\ asm_result = NoResult
    /\ asm_input = << >>
    /\ threads = << >>

\* get_test_vm() and the tests' writes to registers 0 and 1 (vm.rs:23-31, 541, 570)
InitVM ==
    /\ \E x \in RegValues, y \in RegValues :
         vm = [NewVM EXCEPT !.registers[0] = x, !.registers[1] = y]
    /\ vm_state = "idle"
    /\ panic = "none"
    /\ run_result = << >>
    /\ run_entry = NewVM
    /\ step_reads = {}
    /\ step_op = "none"
    /\ stdout = << >>
    /\ asm = NewAssembler
    /\ asm_result = NoResult
    /\ asm_input = << >>
    /\ threads = << >>

\* asm.assemble(&program) on a fresh Assembler (bin/lrvm.rs:71-76)
Assemble(raw) ==
    /\ \E done \in { assemble(asm, raw, debug_assertions) : debug_assertions \in BOOLEAN } :
         /\ asm' = done.asm
         /\ asm_result' = done.result
    /\ asm_input' = raw
    /\ UNCHANGED vm_vars
    /\ UNCHANGED threads

\* VM::add_bytes
add_bytes(v, bytes) == [v EXCEPT !.program = @ \o bytes]

\* vm.add_bytes(p) with the bytes assemble() returned (bin/lrvm.rs:76-77)
LoadAssembled ==
    /\ asm_result.kind = "Ok"
    /\ vm_state = "idle"
    /\ vm.program = << >>
    /\ vm' = add_bytes(vm, asm_result.bytes)
    /\ UNCHANGED <<vm_state, panic, run_result, run_entry, step_reads, step_op, stdout>>
    /\ UNCHANGED asm_vars
    /\ UNCHANGED threads

\* test_vm.program = ... of the tests (vm.rs:469-692)
SetProgram(bytes) ==
    /\ vm_state = "idle"
    /\ vm.program = << >>
    /\ bytes # << >>
    /\ vm' = [vm EXCEPT !.program = bytes]
    /\ UNCHANGED <<vm_state, panic, run_result, run_entry, step_reads, step_op, stdout>>
    /\ UNCHANGED asm_vars
    /\ UNCHANGED threads

\* the number of run() calls made on the VM: each pushes one Start event
Runs(v) == Cardinality({ k \in 1..Len(v.events) : v.events[k].event = "Start" })

\* run() up to the loop (vm.rs:108-127): the VM when the loop is entered, or at the
\* return or the panic before it
RunEntry(v) ==
    LET started == [v EXCEPT !.events = Append(@, StartEvent)]
    IN  IF Len(v.program) < 4
        THEN [vm |-> started, state |-> "panicked", panic |-> "program_index"]
        ELSE IF ~verify_header(v)
        THEN [vm |-> [started EXCEPT !.events = Append(@, Crash(1))],
              state |-> "idle", panic |-> "none"]
        ELSE IF Len(v.program) < PIE_HEADER_LENGTH + 4
        THEN [vm |-> started, state |-> "panicked", panic |-> "program_index"]
        ELSE [vm |-> [started EXCEPT !.pc = UAdd(Usize(64 + 4), get_starting_offset(v))],
              state |-> "running", panic |-> "none"]

RunBegin ==
    /\ vm_state = "idle"
    /\ vm.program # << >>
    /\ Runs(vm) < MaxRuns
    /\ vm' = RunEntry(vm).vm
    /\ vm_state' = RunEntry(vm).state
    /\ panic' = RunEntry(vm).panic
    /\ run_entry' = vm
    /\ run_result' = IF RunEntry(vm).state = "idle" THEN RunEntry(vm).vm.events
                     ELSE run_result
    /\ UNCHANGED <<step_reads, step_op, stdout>>
    /\ UNCHANGED asm_vars
    /\ UNCHANGED threads

\* one turn of the loop of run() (vm.rs:128-130) and, when execute_instruction
\* returns Some(code), the rest of run() (vm.rs:132-139)
RunStep ==
    /\ vm_state = "running"
    /\ \E o \in execute_instruction(vm) :
         /\ Len(o.vm.heap) <= MaxHeap
         /\ Len(stdout) + Len(StepOutput(vm)) <= MaxPrints
         /\ step_reads' = o.reads
         /\ step_op' = o.op
         /\ panic' = o.panic
         /\ stdout' = IF o.panic = "none" THEN stdout \o StepOutput(vm) ELSE stdout
         /\ IF o.panic # "none"
            THEN /\ vm_state' = "panicked"
                 /\ vm' = o.vm
                 /\ UNCHANGED run_result
            ELSE IF o.ret = {}
            THEN /\ vm_state' = "running"
                 /\ vm' = o.vm
                 /\ UNCHANGED run_result
            ELSE /\ vm_state' = "idle"
                 /\ vm' = [o.vm EXCEPT !.events =
                             Append(@, GracefulStop(CHOOSE c \in o.ret : TRUE))]
                 /\ run_result' = vm'.events
    /\ UNCHANGED run_entry
    /\ UNCHANGED asm_vars
    /\ UNCHANGED threads

\* VM::run_once (vm.rs:142-144)
RunOnce ==
    /\ vm_state = "idle"
    /\ vm.program # << >>
    /\ \E o \in execute_instruction(vm) :
         /\ Len(o.vm.heap) <= MaxHeap
         /\ Len(stdout) + Len(StepOutput(vm)) <= MaxPrints
         /\ step_reads' = o.reads
         /\ step_op' = o.op
         /\ panic' = o.panic
         /\ stdout' = IF o.panic = "none" THEN stdout \o StepOutput(vm) ELSE stdout
         /\ vm_state' = IF o.panic # "none" THEN "panicked" ELSE "idle"
         /\ vm' = o.vm
    /\ UNCHANGED <<run_result, run_entry>>
    /\ UNCHANGED asm_vars
    /\ UNCHANGED threads

\* bin/lrvm.rs:71-86: assemble a file, load the bytes into a new VM, run it
Next ==
    \/ asm_result = NoResult /\ \E p \in Programs : Assemble(p)
    \/ LoadAssembled
    \/ RunBegin
    \/ RunStep

Spec == Init /\ [][Next]_vars

\* the unit tests of vm.rs that call run(): a test VM and a hand-made program
NextVM ==
    \/ vm.program = << >> /\ \E bytes \in TestPrograms : SetProgram(bytes)
    \/ RunBegin
    \/ RunStep

SpecVM == InitVM /\ [][NextVM]_vars

\* the values the tests of single opcodes put in registers 0 and 1 (5, 10 of
\* get_test_vm, 7 of test_jmpe_opcode), and a negative one
OnceRegValues == { 0, 5, 7, 10, -5, MaxI32 }

\* the read-only data a test gives the VM (test_prts_opcode appends a string and its
\* zero): none, two strings, a string without its zero, a byte that is no UTF-8
RoDatas == { << >>, Hi \o << 0 >> \o Hello \o << 0 >>, Hi, << 200, 0 >> }

\* the bodies of the tests of single opcodes
OnceBodies ==
    BodyInstrs \cup
    { << 15, 0, 0, 0, 17, 0, 0, 0, 17, 0, 0, 0 >>,   \* test_jmpe_opcode
      << 15, 0, 0, 0, 1, 0, 1, 2 >>,                 \* jmpe $0 / add $0 $1 $2
      << 17, 0, 0, 0 >>,                             \* test_aloc_opcode
      << 21, 0, 0, 0 >>,                             \* test_prts_opcode
      << 21, 0, 2, 0 >>,                             \* prts 2
      << 21, 0, 3, 0 >>,                             \* prts 3
      << 21, 0, 9, 0 >>,                             \* prts 9
      << 33, 0, 0, 0 >>,                             \* test_shl_opcode
      << 33, 0, 1, 0 >>,                             \* shl $0 1
      << 33, 1, 31, 0 >>,                            \* shl $1 31
      << 33, 0, 33, 0 >>,                            \* shl $0 33
      << 34, 0, 0, 0 >>,                             \* shr $0 (16 bits)
      << 34, 1, 1, 0 >>,                             \* shr $1 1
      << 34, 0, 32, 0 >>,                            \* shr $0 32
      << 16, 0, 0, 0, 5, 0, 0, 0 >>,                 \* nop / hlt
      << 9, 0, 1, 7, 9, 1, 1, 0 >>,                  \* eq $0 $1 / eq $1 $1
      << 10, 0, 1, 7 >>,                             \* neq $0 $1
      << 11, 0, 1, 7 >>,                             \* gte $0 $1
      << 12, 0, 1, 7 >>,                             \* lte $0 $1
      << 13, 0, 1, 7 >>,                             \* lt $0 $1
      << 14, 0, 1, 7 >>,                             \* gt $0 $1
      << 6, 0, 0, 0 >>,                              \* test_jmp_opcode
      << 7, 0, 0, 0, 5, 0, 0, 0 >>,                  \* test_jmpf_opcode
      << 0, 0, 0, 10, 8, 1, 0, 0 >>,                 \* test_jmpb_opcode
      << 0, 0, 1, 244 >>,                            \* test_load_opcode
      << 0, 0, 255, 255 >>,                          \* load $0 #65535
      << 27, 0, 1, 0 >>,                             \* eqf64 $0 $1
      << 29, 0, 1, 0 >>,                             \* gtf64 $0 $1
      << 30, 0, 1, 0 >>,                             \* gtef64 $0 $1
      << 31, 0, 1, 0 >>,                             \* ltf64 $0 $1
      << 32, 0, 1, 0 >> }                            \* ltef64 $0 $1

\* get_test_vm() and the writes of the tests of single opcodes to the registers, the
\* flag and the read-only data (vm.rs:23-31, 585-586, 672, 683)
InitOnce ==
    /\ \E x \in OnceRegValues, y \in OnceRegValues, f \in BOOLEAN, ro \in RoDatas :
         vm = [NewVM EXCEPT !.registers[0] = x, !.registers[1] = y,
                            !.equal_flag = f, !.ro_data = ro]
    /\ vm_state = "idle"
    /\ panic = "none"
    /\ run_result = << >>
    /\ run_entry = NewVM
    /\ step_reads = {}
    /\ step_op = "none"
    /\ stdout = << >>
    /\ asm = NewAssembler
    /\ asm_result = NoResult
    /\ asm_input = << >>
    /\ threads = << >>

\* the unit tests of vm.rs that call run_once(): a test VM and a body without header
NextOnce ==
    \/ vm.program = << >> /\ \E bytes \in OnceBodies : SetProgram(bytes)
    \/ RunOnce

SpecOnce == InitOnce /\ [][NextOnce]_vars

\* the sources given to an Assembler that is used for more than one assemble()
AgainPrograms ==
    { << l >> : l \in SourceLines }
      \cup { HelloProgram, HltProgram, ErrorsProgram, WrongSectionProgram }

\* assemble() is called again on the same Assembler; the counter of instructions,
\* which pass 1 never resets, bounds the number of calls
AssembleAgain ==
    /\ asm.current_instruction < MaxCounted
    /\ \E p \in AgainPrograms : Assemble(p)

NextAgain == AssembleAgain

SpecAgain == Init /\ [][NextAgain]_vars

\* REPL::spawn (repl/mod.rs:347-364): assemble the file with the REPL's Assembler,
\* append the bytes to the REPL's VM and move a clone of that VM into a new thread
Spawn(raw) ==
    /\ vm_state = "idle"
    /\ asm.current_instruction < MaxCounted
    /\ \E done \in { assemble(asm, raw, debug_assertions) : debug_assertions \in BOOLEAN } :
         /\ asm' = done.asm
         /\ asm_result' = done.result
         /\ IF done.result.kind = "Ok"
            THEN /\ vm' = add_bytes(vm, done.result.bytes)
                 /\ threads' = Append(threads, [vm |-> vm', state |-> "spawned",
                                                panic |-> "none", result |-> << >>])
                 /\ UNCHANGED <<vm_state, panic>>
            ELSE IF done.result.kind = "Panic"
            THEN /\ vm_state' = "panicked"
                 /\ panic' = "debug_assert"
                 /\ UNCHANGED <<vm, threads>>
            ELSE UNCHANGED <<vm, vm_state, panic, threads>>
    /\ asm_input' = raw
    /\ UNCHANGED <<run_result, run_entry, step_reads, step_op, stdout>>

\* the closure of get_thread (scheduler/mod.rs:24-32) up to the loop of run(): the
\* thread calls run() on the VM it owns
ThreadBegin(t) ==
    /\ threads[t].state = "spawned"
    /\ LET entered == RunEntry(threads[t].vm)
       IN  threads' = [threads EXCEPT ![t] =
                         [vm |-> entered.vm,
                          state |-> IF entered.state = "idle" THEN "returned"
                                    ELSE entered.state,
                          panic |-> entered.panic,
                          result |-> IF entered.state = "idle" THEN entered.vm.events
                                     ELSE << >>]]
    /\ UNCHANGED vm_vars
    /\ UNCHANGED asm_vars

\* the same ThreadStep with the VM behind a shared reference instead of a clone
ThreadStep_OnTheReplVM(t) ==
    /\ threads[t].state = "running"
    /\ \E o \in execute_instruction(threads[t].vm) :
         /\ Len(o.vm.heap) <= MaxHeap
         /\ threads' = [threads EXCEPT ![t].vm = o.vm]
         /\ vm' = o.vm
    /\ UNCHANGED <<vm_state, panic, run_result, run_entry, step_reads, step_op, stdout>>
    /\ UNCHANGED asm_vars

\* one turn of the loop of run() in the thread (vm.rs:128-130) and, when
\* execute_instruction returns Some(code), the rest of run() and of the closure:
\* `events` is what the thread returns
ThreadStep(t) ==
    /\ threads[t].state = "running"
    /\ \E o \in execute_instruction(threads[t].vm) :
         /\ Len(o.vm.heap) <= MaxHeap
         /\ Len(stdout) + Len(StepOutput(threads[t].vm)) <= MaxPrints
         /\ stdout' = IF o.panic = "none" THEN stdout \o StepOutput(threads[t].vm)
                      ELSE stdout
         /\ IF o.panic # "none"
            THEN threads' = [threads EXCEPT ![t] = [vm |-> o.vm, state |-> "panicked",
                                                    panic |-> o.panic, result |-> << >>]]
            ELSE IF o.ret = {}
            THEN threads' = [threads EXCEPT ![t].vm = o.vm]
            ELSE LET stopped == [o.vm EXCEPT !.events =
                                   Append(@, GracefulStop(CHOOSE c \in o.ret : TRUE))]
                 IN  threads' = [threads EXCEPT ![t] =
                                   [vm |-> stopped, state |-> "returned",
                                    panic |-> "none", result |-> stopped.events]]
    /\ UNCHANGED <<vm, vm_state, panic, run_result, run_entry, step_reads, step_op>>
    /\ UNCHANGED asm_vars

\* the REPL with its scheduler: !spawn, and steps of the REPL's own VM (run_once,
\* as repl/mod.rs:127 and 171 call it), while the spawned threads run
NextThreads ==
    \/ \E p \in { HltProgram, HelloProgram, ErrorsProgram, LoadProgram(0, 1),
                  LoadProgram(NumRegisters, 1) } : Spawn(p)
    \/ \E t \in DOMAIN threads : ThreadBegin(t)
    \/ \E t \in DOMAIN threads : ThreadStep(t)
    \/ RunOnce

SpecThreads == Init /\ [][NextThreads]_vars

(***************************************************************************)
(* The claims                                                              *)
(***************************************************************************)
\* run() has returned: the log it returned is run_result
RunReturned == vm_state = "idle" /\ run_result # << >>

Terminal(e) == e.event \in { "GracefulStop", "Crash" }

C2_TerminalEventNamesTheCause ==
    [][ (RunStep /\ vm_state' = "idle") =>
          /\ step_op' = "HLT" => Last(run_result') = GracefulStop(0)
          /\ step_op' = "IGL" => Last(run_result') = Crash(1) ]_vars

\* the mathematical result of the four arithmetic opcodes
C3_Result(op, x, y) ==
    CASE op = 1 -> x + y
      [] op = 2 -> x - y
      [] op = 3 -> x * y
      [] op = 4 -> TruncDiv(x, y)

\* operands whose result the claim speaks of and an i32 holds
C3_Defined(op, x, y) ==
    /\ op = 4 => y # 0
    /\ op = 3 => Abs(x) < 32768 /\ Abs(y) < 32768
    /\ C3_Result(op, x, y) \in MinI32..MaxI32

\* C3, as stated: after one run() of prepend_header([op, a, b, c]) with op one of ADD,
\* SUB, MUL, DIV and a, b, c below 32, registers[c] = registers[a] op registers[b].
C3_ArithmeticAfterOneRun ==
    LET p == run_entry.program
        op == p[65]
        a == p[66]
        b == p[67]
        c == p[68]
    IN  ( /\ RunReturned
          /\ Len(run_result) = 2
          /\ Len(p) = PIE_HEADER_LENGTH + 4
          /\ p = prepend_header(SubSeq(p, 65, 68))
          /\ op \in 1..4 /\ a \in 0..31 /\ b \in 0..31 /\ c \in 0..31
          /\ C3_Defined(op, run_entry.registers[a], run_entry.registers[b]) )
        => vm.registers[c] = C3_Result(op, run_entry.registers[a], run_entry.registers[b])

\* C4, as stated: on a magic match the loop of run() is entered with pc = 64 + offset,
\* offset being the little-endian u32 at one position inside the 64-byte header.
C4_StartsAtHeaderLengthPlusHeaderField ==
    [][ (RunBegin /\ vm_state' = "running") =>
          \E k \in 0..(PIE_HEADER_LENGTH - 4) :
            vm'.pc = UAdd(Usize(PIE_HEADER_LENGTH),
                          ReadU32LE(SubSeq(vm.program, k + 1, k + 4))) ]_vars

\* C5, as stated: run() of the bytes assemble() returned enters the loop at the first
\* encoded instruction, the byte behind the 64-byte header, and the program
\* `.data / .code / hlt` ends with GracefulStop{0}.
C5_AssembledProgramRunsFromItsFirstInstruction ==
    [][ /\ (RunBegin /\ vm_state' = "running") => vm'.pc = Usize(PIE_HEADER_LENGTH)
        /\ (RunStep /\ vm_state' = "idle" /\ asm_input = HltProgram) =>
             Last(run_result') = GracefulStop(0) ]_vars

\* the program of the run() that returned has four bytes or more and they are not
\* the magic prefix
C6_Mismatch ==
    /\ RunReturned
    /\ Len(run_entry.program) >= 4
    /\ SubSeq(run_entry.program, 1, 4) # << 45, 50, 49, 45 >>

\* C6: on a program whose first four bytes are not the magic prefix run() returns the
\* log with Start and Crash{1} appended and executes no instruction: registers, pc,
\* heap, equality flag and every other field of the VM are as they were.
C6_HeaderMismatchExecutesNothing ==
    C6_Mismatch =>
      /\ run_result = run_entry.events
                        \o << [event |-> "Start", code |-> 0], [event |-> "Crash", code |-> 1] >>
      /\ vm = [run_entry EXCEPT !.events = run_result]
      /\ step_op = "none"
      /\ step_reads = {}
      /\ stdout = << >>

\* run() has returned on a bad header in front of two instructions, registers[0] = 5
C6_CrashedOnBadHeader ==
    /\ C6_Mismatch
    /\ Len(run_entry.program) = PIE_HEADER_LENGTH + 8
    /\ Last(run_result).event = "Crash"
    /\ vm.registers[0] = 5

\* C7: a step of the loop of run() taken with pc >= program.len() reads no byte of the
\* program, changes no field of the VM, and ends run() with GracefulStop{1}.
C7_StepPastTheEndIsImplicitHalt ==
    [][ (RunStep /\ ~ULess(vm.pc, Usize(Len(vm.program)))) =>
          /\ step_reads' = {}
          /\ step_op' = "none"
          /\ vm' = [vm EXCEPT !.events = Append(@, [event |-> "GracefulStop", code |-> 1])]
          /\ vm_state' = "idle"
          /\ panic' = "none"
          /\ run_result' = vm'.events
          /\ stdout' = stdout ]_vars

\* run() executed `add $0 $1 $2` on 5 and 10, stepped past the end and returned
C7_RanOffTheEnd ==
    /\ RunReturned
    /\ step_op = "none"
    /\ step_reads = {}
    /\ Last(run_result) = [event |-> "GracefulStop", code |-> 1]
    /\ vm.pc = Usize(Len(vm.program))
    /\ vm.registers[2] = 15

\* the bytes pass 1 puts in the read-only buffer: the string and a zero byte of every
\* .asciiz directive that has a label
RECURSIVE RoBytes(_)
RoBytes(instructions) ==
    IF instructions = << >> THEN << >>
    ELSE LET i == Head(instructions)
         IN  (IF /\ i.directive.name = "asciiz"
                 /\ i.label.kind = "LabelDeclaration"
                 /\ i.operand1.kind = "IrString"
              THEN i.operand1.str \o << 0 >> ELSE << >>) \o RoBytes(Tail(instructions))

\* C8: the bytes assemble() returns start with the magic prefix, then the length of
\* the read-only buffer as a little-endian u32, then zeros up to byte 64.
C8_HeaderLayout ==
    asm_result.kind = "Ok" =>
      LET b == asm_result.bytes
          n == Len(RoBytes(program(asm_input).instructions))
      IN  /\ Len(b) >= 64
          /\ SubSeq(b, 1, 4) = << 45, 50, 49, 45 >>
          /\ b[5] + 256 * b[6] + 65536 * b[7] = n
          /\ b[8] = 0
          /\ \A k \in 9..64 : b[k] = 0
          /\ n = Len(asm.ro)

\* assemble() returned the bytes of a source whose one string is 'Hello'
C8_HelloHeader ==
    /\ asm_result.kind = "Ok"
    /\ asm.ro = Hello \o << 0 >>
    /\ SubSeq(asm_result.bytes, 5, 8) = << 6, 0, 0, 0 >>

\* the opcode instructions of a source text, in source order
RECURSIVE OpcodeInstructions(_)
OpcodeInstructions(raw) ==
    IF raw = << >> THEN << >>
    ELSE (IF is_opcode(Head(raw).instruction) THEN << Head(raw).instruction >> ELSE << >>)
           \o OpcodeInstructions(Tail(raw))

\* C9, as stated: behind the header the bytes assemble() returns are to_bytes of every
\* opcode instruction of the source, in source order, and nothing else; the
\* seven-instruction test program assembles to 92 bytes.
C9_BodyIsEveryOpcodeInstruction ==
    /\ asm_result.kind = "Ok" =>
         SubSeq(asm_result.bytes, PIE_HEADER_LENGTH + 1, Len(asm_result.bytes))
           = Concat([k \in 1..Len(OpcodeInstructions(asm_input)) |->
                       to_bytes(OpcodeInstructions(asm_input)[k], asm.symbols)])
    /\ (asm_input = TestAssembleProgram /\ asm_result # NoResult) =>
         asm_result.kind = "Ok" /\ Len(asm_result.bytes) = 92

\* C10, as stated: the read-only buffer sits behind the header of the artifact, is in
\* the ro_data of the VM the artifact was loaded into, and PRTS prints from it.
C10_ReadOnlyDataReachesTheVM ==
    (asm_result.kind = "Ok" /\ asm.ro # << >>) =>
      /\ Len(asm_result.bytes) >= PIE_HEADER_LENGTH + Len(asm.ro)
      /\ SubSeq(asm_result.bytes, PIE_HEADER_LENGTH + 1, PIE_HEADER_LENGTH + Len(asm.ro))
           = asm.ro
      /\ vm.program # << >> => vm.ro_data = asm.ro
      /\ (asm_input = HelloProgram /\ step_op = "PRTS") =>
           panic = "none" /\ stdout = << Hello >>

(***************************************************************************)
(* Claims about pass 1                                                     *)
(***************************************************************************)
\* the instructions program() hands to the passes, 1-based
Parsed == program(asm_input).instructions

\* assemble() has run pass 1 on Parsed and returned a Result
Assembled ==
    /\ asm_input # << >>
    /\ Parsed # << >>
    /\ asm_result.kind \in { "Ok", "Err" }

\* a directive without operands that names a section
IsSectionHeader(i) ==
    i.directive.kind = "Directive" /\ i.directive.name \in { "data", "code" }
      /\ i.operand1.kind = "None" /\ i.operand2.kind = "None" /\ i.operand3.kind = "None"

\* instruction k stands behind a section header
InSection(instructions, k) == \E j \in 1..(k - 1) : IsSectionHeader(instructions[j])

\* the labelled instructions inside a section
LabelledInSection(instructions) ==
    { k \in 1..Len(instructions) :
        instructions[k].label.kind = "LabelDeclaration" /\ InSection(instructions, k) }

\* those that declare a name an earlier one of them declared
Redeclarations(instructions) ==
    { k \in LabelledInSection(instructions) :
        \E j \in LabelledInSection(instructions) :
          j < k /\ instructions[j].label.name = instructions[k].label.name }

ErrorsOfKind(errors, kind) == { k \in 1..Len(errors) : errors[k].kind = kind }

SectionHeaders(instructions) ==
    { k \in 1..Len(instructions) : IsSectionHeader(instructions[k]) }

\* pass 2 did not run: no bytes came back and no section header was seen twice
NoSecondPass ==
    /\ asm_result.bytes = << >>
    /\ Len(asm.sections) = Cardinality(SectionHeaders(Parsed))

\* C11: a label declared again inside a section (on an opcode line or an .asciiz
\* line) gives Err with one SymbolAlreadyDeclared per redeclaration, exactly one when
\* a name is declared twice, and pass 2 is not run.
C11_RedeclaredLabelIsOneError ==
    (Assembled /\ Redeclarations(Parsed) # {}) =>
      /\ asm_result.kind = "Err"
      /\ asm_result.errors = asm.errors
      /\ Cardinality(ErrorsOfKind(asm_result.errors, "SymbolAlreadyDeclared"))
           = Cardinality(Redeclarations(Parsed))
      /\ NoSecondPass

\* assemble() returned Err for `.data / a: .asciiz 'Hi' / a:inc $0 / .code`-like
\* sources: one redeclaration behind an .asciiz line, one error
C11_OneRedeclaration ==
    /\ Assembled
    /\ Cardinality(Redeclarations(Parsed)) = 1
    /\ Len(Parsed) = 4
    /\ Parsed[2].directive.name = "asciiz"
    /\ Parsed[3].label.name = Parsed[2].label.name
    /\ asm_result.errors = << AsmError("SymbolAlreadyDeclared", 0, "") >>

\* the Assembler after pass 1 has processed the first k instructions of Parsed
AfterInstruction(k) == FirstPhaseLoop(NewAssembler, SubSeq(Parsed, 1, k))

\* the entries of a symbol table for a name
Bindings(symbols, name) == { symbols[j] : j \in { j \in 1..Len(symbols) : symbols[j].name = name } }

\* C12, as stated: the symbol table entry of a name (type and offset) is the same
\* after pass 1 has processed an instruction that redeclares the name as before it,
\* on an opcode line and on an .asciiz line.
C12_RejectedRedeclarationKeepsBinding ==
    Assembled =>
      \A k \in Redeclarations(Parsed) :
        Bindings(AfterInstruction(k).symbols, Parsed[k].label.name)
          = Bindings(AfterInstruction(k - 1).symbols, Parsed[k].label.name)

\* pass 1 saw exactly two section headers, one .data and one .code
OneDataOneCode(instructions) ==
    /\ Cardinality(SectionHeaders(instructions)) = 2
    /\ { instructions[k].directive.name : k \in SectionHeaders(instructions) }
         = { "data", "code" }

\* C13, as stated: Ok is returned only for exactly one .data and one .code header;
\* with no other pass-1 error every other combination of headers gives Err with
\* InsufficientSections and no bytes.
C13_OkNeedsOneDataAndOneCode ==
    Assembled =>
      /\ asm_result.kind = "Ok" => OneDataOneCode(Parsed)
      /\ ( /\ ~OneDataOneCode(Parsed)
           /\ \A k \in 1..Len(asm.errors) : asm.errors[k].kind = "InsufficientSections" )
         => /\ asm_result.kind = "Err"
            /\ ErrorsOfKind(asm_result.errors, "InsufficientSections") # {}
            /\ asm_result.bytes = << >>

\* the errors instruction k of a program earns in pass 1: for its label, then for
\* its directive
Offences(instructions, k) ==
    LET i == instructions[k]
    IN  (IF i.label.kind = "LabelDeclaration" /\ ~InSection(instructions, k)
         THEN << AsmError("NoSegmentDeclarationFound", k - 1, "") >>
         ELSE IF k \in Redeclarations(instructions)
         THEN << AsmError("SymbolAlreadyDeclared", 0, "") >>
         ELSE << >>)
        \o (IF /\ i.directive.kind = "Directive"
               /\ i.directive.name # "asciiz"
               /\ ~(i.operand1.kind = "None" /\ i.operand2.kind = "None"
                      /\ i.operand3.kind = "None")
            THEN << AsmError("UnknownDirectiveFound", 0, i.directive.name) >>
            ELSE << >>)

AllOffences(instructions) ==
    Concat([k \in 1..Len(instructions) |-> Offences(instructions, k)])

Offending(instructions) ==
    { k \in 1..Len(instructions) : Offences(instructions, k) # << >> }

\* C14, as stated: a program with k offending instructions gives Err with k errors,
\* and pass 2 is not run.
C14_OneErrorPerOffendingInstruction ==
    (Assembled /\ Offending(Parsed) # {}) =>
      /\ asm_result.kind = "Err"
      /\ Len(asm_result.errors) = Cardinality(Offending(Parsed))
      /\ NoSecondPass

\* C14, amended: pass 1 scans every instruction and collects one error per offence,
\* in source order, the error for an instruction's label before the error for its
\* directive (one instruction can earn both); when there is any, assemble() returns
\* Err with exactly these errors, pass 2 is not run and no bytes are returned.
C14_EveryOffenceIsReportedInOrder ==
    (Assembled /\ AllOffences(Parsed) # << >>) =>
      /\ asm_result.kind = "Err"
      /\ asm_result.errors = AllOffences(Parsed)
      /\ asm.errors = AllOffences(Parsed)
      /\ NoSecondPass

\* assemble() returned the four errors of the three offending lines of ErrorsProgram
C14_FourErrorsReported ==
    /\ Assembled
    /\ asm_input = ErrorsProgram
    /\ asm_result.errors =
         << AsmError("NoSegmentDeclarationFound", 0, ""),
            AsmError("UnknownDirectiveFound", 0, "word"),
            AsmError("SymbolAlreadyDeclared", 0, ""),
            AsmError("UnknownDirectiveFound", 0, "word") >>
    /\ Cardinality(Offending(Parsed)) = 3

(***************************************************************************)
(* Claims about the parse of the source                                    *)
(***************************************************************************)
\* the first line of the source is `label: opcode ...` with white space behind the
\* colon: neither instruction() nor directive() accepts it, many1 fails
FirstLineUnparsable(raw) ==
    /\ raw # << >>
    /\ raw[1].instruction.opcode.kind = "Op"
    /\ raw[1].instruction.label.kind = "LabelDeclaration"
    /\ raw[1].gap

\* sources that cannot be parsed: an unparsable line alone and in front of each line
UnparsableSources ==
    LET bad == { l \in SourceLines : FirstLineUnparsable(<< l >>) }
    IN  { << l >> : l \in bad } \cup { << l, m >> : l \in bad, m \in SourceLines }

OneParseError ==
    [kind |-> "Err", bytes |-> << >>,
     errors |-> << [kind |-> "ParseError", instruction |-> 0, directive |-> ""] >>]

\* C15: on a source that cannot be parsed assemble() returns Err with exactly one
\* ParseError and leaves every field of the Assembler as it was, on a new Assembler
\* and on one that has assembled before.
C15_ParseFailureIsOneErrorAndNoPass ==
    /\ (asm_result # NoResult /\ FirstLineUnparsable(asm_input)) =>
         asm_result = OneParseError /\ asm = NewAssembler
    /\ \A raw \in UnparsableSources, debug_assertions \in BOOLEAN :
         assemble(asm, raw, debug_assertions) = [asm |-> asm, result |-> OneParseError]

\* assemble() returned the ParseError for a three-line source
C15_ParseErrorReturned ==
    /\ Len(asm_input) = 3
    /\ FirstLineUnparsable(asm_input)
    /\ asm_result = OneParseError
    /\ asm = NewAssembler

\* C16, as stated: when program() parses one or more instructions and leaves input
\* unconsumed, assemble() does not return Ok.
C16_TrailingInputIsNeverOk ==
    (asm_result # NoResult /\ Parsed # << >> /\ Len(Parsed) < Len(asm_input)) =>
      asm_result.kind # "Ok"

(***************************************************************************)
(* Claims about labels and string constants in pass 1                      *)
(***************************************************************************)
\* the labelled instructions in front of every section header
LabelledBeforeSection(instructions) ==
    { k \in 1..Len(instructions) :
        instructions[k].label.kind = "LabelDeclaration" /\ ~InSection(instructions, k) }

\* the errors of one kind, in the order they were recorded
RECURSIVE SelectKind(_, _)
SelectKind(errors, kind) ==
    IF errors = << >> THEN << >>
    ELSE (IF Head(errors).kind = kind THEN << Head(errors) >> ELSE << >>)
           \o SelectKind(Tail(errors), kind)

\* the indexes (from 0) of the members of a set of positions, in ascending order
RECURSIVE IndexesFrom(_, _, _)
IndexesFrom(S, k, n) ==
    IF k > n THEN << >>
    ELSE (IF k \in S THEN << k - 1 >> ELSE << >>) \o IndexesFrom(S, k + 1, n)

\* C17: pass 1 records exactly one NoSegmentDeclarationFound, carrying the index of
\* the instruction, for each labelled instruction in front of every section header,
\* and does not add its label to the symbol table; a labelled instruction inside a
\* section records none.
C17_LabelBeforeAnySectionIsReportedNotDeclared ==
    Assembled =>
      /\ [e \in 1..Len(SelectKind(asm.errors, "NoSegmentDeclarationFound")) |->
            SelectKind(asm.errors, "NoSegmentDeclarationFound")[e].instruction]
           = IndexesFrom(LabelledBeforeSection(Parsed), 1, Len(Parsed))
      /\ { asm.symbols[s].name : s \in 1..Len(asm.symbols) }
           = { Parsed[k].label.name : k \in LabelledInSection(Parsed) }

\* assemble() met a labelled instruction that is not the first one in front of the
\* first section header, and another label inside a section
C17_LabelReportedAtItsIndex ==
    /\ Assembled
    /\ \E k \in LabelledBeforeSection(Parsed) : k > 1
    /\ \E k \in LabelledInSection(Parsed) :
         \A j \in LabelledBeforeSection(Parsed) : Parsed[j].label.name # Parsed[k].label.name
    /\ \E k \in LabelledBeforeSection(Parsed) :
         \A j \in LabelledInSection(Parsed) : Parsed[j].label.name # Parsed[k].label.name

\* an .asciiz directive that has a string and no label
IsUnlabelledString(i) ==
    /\ get_directive_name(i) = { "asciiz" }
    /\ get_string_constant(i) # {}
    /\ get_label_name(i) = {}

UnlabelledStrings(instructions) ==
    { k \in 1..Len(instructions) : IsUnlabelledString(instructions[k]) }

\* the source with its unlabelled .asciiz lines taken out
RECURSIVE WithoutUnlabelledStrings(_)
WithoutUnlabelledStrings(instructions) ==
    IF instructions = << >> THEN << >>
    ELSE (IF IsUnlabelledString(Head(instructions)) THEN << >>
          ELSE << SourceLine(Head(instructions), FALSE) >>)
           \o WithoutUnlabelledStrings(Tail(instructions))

\* the kinds of a sequence of errors
KindsOf(errors) == [e \in 1..Len(errors) |-> errors[e].kind]

\* C18: an .asciiz directive that has a string and no label leaves the read-only
\* buffer and the read-only offset as they were and is not fatal: it records no
\* error, and assemble() returns what it returns for the source without that line
\* (the same bytes, or errors of the same kinds).
C18_UnlabelledStringIsIgnored ==
    Assembled =>
      /\ \A k \in UnlabelledStrings(Parsed) :
           LET before == AfterInstruction(k - 1)
               after == AfterInstruction(k)
           IN  /\ after.ro = before.ro
               /\ after.ro_offset = before.ro_offset
               /\ after.errors = before.errors
      /\ asm.ro = RoBytes(Parsed)
      /\ asm.ro_offset = Len(asm.ro)
      /\ WithoutUnlabelledStrings(Parsed) # << >> =>
           LET other == assemble(NewAssembler, WithoutUnlabelledStrings(Parsed), FALSE).result
           IN  /\ asm_result.kind = other.kind
               /\ asm_result.bytes = other.bytes
               /\ KindsOf(asm_result.errors) = KindsOf(other.errors)

\* assemble() returned Ok for a source like `.data / a: .asciiz 'Hi' / .asciiz 'Hi' /
\* .code`: an unlabelled string behind a stored one
C18_UnlabelledStringAssembled ==
    /\ Assembled
    /\ asm_result.kind = "Ok"
    /\ asm.ro # << >>
    /\ \E k \in UnlabelledStrings(Parsed) : k > 1 /\ AfterInstruction(k - 1).ro # << >>

\* C19, as stated: pass 1 records one StringConstantDeclaredWithoutLabel error for
\* each .asciiz directive that has a string and no label.
C19_UnlabelledStringIsAnError ==
    Assembled =>
      Cardinality(ErrorsOfKind(asm.errors, "StringConstantDeclaredWithoutLabel"))
        = Cardinality(UnlabelledStrings(Parsed))

\* the .asciiz directives that have a label and a string
LabelledStrings(instructions) ==
    { k \in 1..Len(instructions) :
        /\ get_directive_name(instructions[k]) = { "asciiz" }
        /\ get_string_constant(instructions[k]) # {}
        /\ get_label_name(instructions[k]) # {} }

\* every labelled .asciiz directive stands inside a section, and no two of them
\* declare the same label
DistinctLabelledStringsInSections(instructions) ==
    /\ \A k \in LabelledStrings(instructions) : InSection(instructions, k)
    /\ \A j, k \in LabelledStrings(instructions) :
         j # k => instructions[j].label.name # instructions[k].label.name

\* C20: when the labelled .asciiz directives of a program stand inside a section and
\* declare distinct labels, pass 1 leaves the read-only buffer s1 0 s2 0 ... sn 0 of
\* their strings in source order, the read-only offset equal to the length of the
\* buffer, and in the symbol of each label the length the buffer had before the
\* string of that label was appended.
C20_StringsAreLaidOutInOrder ==
    (Assembled /\ DistinctLabelledStringsInSections(Parsed)) =>
      /\ asm.ro = RoBytes(Parsed)
      /\ asm.ro_offset = Len(asm.ro)
      /\ \A k \in LabelledStrings(Parsed) :
           symbol_value(asm.symbols, Parsed[k].label.name)
             = { Len(RoBytes(SubSeq(Parsed, 1, k - 1))) }

\* assemble() went over `.data / a: .asciiz 'Hi' / b: .asciiz 'Hello' / .code`-like
\* sources: two strings, the second one starting behind the first
C20_TwoStringsLaidOut ==
    /\ Assembled
    /\ DistinctLabelledStringsInSections(Parsed)
    /\ Cardinality(LabelledStrings(Parsed)) >= 2
    /\ \E k \in LabelledStrings(Parsed) :
         /\ symbol_value(asm.symbols, Parsed[k].label.name) # { 0 }
         /\ symbol_value(asm.symbols, Parsed[k].label.name) # {}

(***************************************************************************)
(* Claims about section headers and the symbol table                       *)
(***************************************************************************)
\* the directives without operands whose name is neither `data` nor `code`
UnknownSectionHeaders(instructions) ==
    { k \in 1..Len(instructions) :
        /\ is_directive(instructions[k])
        /\ ~has_operands(instructions[k])
        /\ ~IsSectionHeader(instructions[k]) }

\* C21, as stated: assembling a program that holds a section header whose name is
\* neither `data` nor `code` returns an error, whatever else the program declares.
C21_UnknownSectionHeaderIsAnError ==
    (Assembled /\ UnknownSectionHeaders(Parsed) # {}) => asm_result.kind = "Err"

\* C22, as stated: after assemble() returned Ok every Label symbol of the symbol
\* table has an offset, the labels of opcode instructions as well as those of
\* .asciiz strings.
C22_EveryLabelHasAnOffsetAfterOk ==
    (Assembled /\ asm_result.kind = "Ok") =>
      \A s \in 1..Len(asm.symbols) :
        asm.symbols[s].symbol_type = "Label" => asm.symbols[s].offset # {}

\* no two symbols of a table have the same name
UniqueNames(symbols) ==
    \A s, t \in 1..Len(symbols) : s # t => symbols[s].name # symbols[t].name

\* C23: over every sequence of assemble() calls on one Assembler no two symbols of
\* its symbol table have the same name, and a symbol once added is never removed:
\* each call leaves the names that were in the table where they were.
C23_SymbolNamesAreUniqueAndKept ==
    [][ /\ UniqueNames(asm'.symbols)
        /\ Len(asm'.symbols) >= Len(asm.symbols)
        /\ \A s \in 1..Len(asm.symbols) : asm'.symbols[s].name = asm.symbols[s].name
      ]_vars

\* a later assemble() on an Assembler that holds two symbols declared a label that an
\* earlier call had declared, and was refused
C23_RedeclaredInALaterCall ==
    /\ Len(asm.symbols) >= 2
    /\ Assembled
    /\ Redeclarations(Parsed) = {}
    /\ \E k \in 1..Len(Parsed) : Parsed[k].label.kind = "LabelDeclaration"
    /\ asm.errors # << >>
    /\ asm.errors[Len(asm.errors)].kind = "SymbolAlreadyDeclared"

(***************************************************************************)
(* Claims about single opcodes                                             *)
(***************************************************************************)
\* the next step of the VM decodes the opcode op
Decodes(op) ==
    /\ vm.program # << >>
    /\ ~PcPastEnd(vm)
    /\ OpcodeFromU8(ProgramAt(vm, vm.pc[2])) = op

\* C24, as stated: JMPE r sets pc to registers[r] when the equality flag is set;
\* when it is not set the step changes nothing else and the next step decodes the
\* next 4-byte slot, the instruction behind the JMPE instruction.
C24_JmpeFallsThroughToTheNextSlot ==
    [][ (Decodes("JMPE") /\ panic' = "none") =>
          vm' = [vm EXCEPT !.pc = IF vm.equal_flag
                                  THEN Usize(vm.registers[ProgramAt(vm, vm.pc[2] + 1)])
                                  ELSE Usize(vm.pc[2] + 4)]
      ]_vars

\* heap a begins with the bytes of heap b and holds zeros behind them
GrownFrom(a, b) ==
    /\ Len(a) >= Len(b)
    /\ \A k \in 1..Len(a) : a[k] = IF k <= Len(b) THEN b[k] ELSE 0

\* C25, as stated: an ALOC r step sets the heap length to its previous length plus
\* registers[r], keeps the old bytes and zero-fills the new ones, and the heap length
\* never decreases, whatever the register holds.
C25_AlocGrowsTheHeapAndNeverShrinksIt ==
    [][ /\ (Decodes("ALOC") /\ panic' = "none") =>
             /\ Len(vm'.heap) = Len(vm.heap) + vm.registers[ProgramAt(vm, vm.pc[2] + 1)]
             /\ GrownFrom(vm'.heap, vm.heap)
        /\ Len(vm'.heap) >= Len(vm.heap)
      ]_vars

\* 2^n for n in 0..30
RECURSIVE Pow2(_)
Pow2(n) == IF n = 0 THEN 1 ELSE 2 * Pow2(n - 1)

\* the 32-bit two's complement value x shifted left by k bits, k in 0..31: the low
\* 32 - k bits of x move up, bit 31 - k becomes the sign
ShiftedLeft(x, k) ==
    IF k = 0 THEN x
    ELSE LET low == x % Pow2(31 - k)
             sign == (x \div Pow2(31 - k)) % 2
             moved == IF low = 0 THEN 0 ELSE low * Pow2(k)
         IN  IF sign = 1 THEN (moved - MaxI32) - 1 ELSE moved

\* the value shifted right by k bits, the sign bit filling in (i32)
ShiftedRight(x, k) == IF x >= 0 THEN x \div Pow2(k) ELSE -(((-(x + 1)) \div Pow2(k)) + 1)

\* the number of bits a shift-amount byte stands for
ShiftAmount(byte) == (IF byte = 0 THEN 16 ELSE byte) % 32

\* C26: SHL r, n replaces registers[r] by its 32-bit value shifted left by n bits,
\* the amount wrapping at 32 and a shift-amount byte of 0 standing for 16 bits (5
\* becomes 327680); SHR shifts to the right; no other register and no flag changes.
C26_ShiftByAmountZeroMeansSixteen ==
    [][ \A op \in { "SHL", "SHR" } :
          (Decodes(op) /\ panic' = "none") =>
            LET r == ProgramAt(vm, vm.pc[2] + 1)
                n == ShiftAmount(ProgramAt(vm, vm.pc[2] + 2))
                shifted == IF op = "SHL" THEN ShiftedLeft(vm.registers[r], n)
                           ELSE ShiftedRight(vm.registers[r], n)
            IN  /\ vm'.registers = [vm.registers EXCEPT ![r] = shifted]
                /\ vm'.equal_flag = vm.equal_flag
                /\ vm'.heap = vm.heap
                /\ (op = "SHL" /\ vm.registers[r] = 5 /\ ProgramAt(vm, vm.pc[2] + 2) = 0)
                     => vm'.registers[r] = 327680
      ]_vars

\* test_shl_opcode has run: register 0 held 5, `shl $0` with amount byte 0 was
\* executed, and the register holds 327680
C26_FiveShiftedBySixteen ==
    /\ vm.program = << 33, 0, 0, 0 >>
    /\ step_op = "SHL"
    /\ panic = "none"
    /\ vm.registers[0] = 327680

\* the offset a PRTS instruction at pc carries
PrtsOffset == ProgramAt(vm, vm.pc[2] + 1) * 256 + ProgramAt(vm, vm.pc[2] + 2)

\* the indexes (from 0) of the zero bytes of ro at or after offset o
ZerosFrom(ro, o) == { z \in 0..(Len(ro) - 1) : z >= o /\ ro[z + 1] = 0 }

FirstZero(ro, o) == CHOOSE z \in ZerosFrom(ro, o) : \A y \in ZerosFrom(ro, o) : z <= y

\* the bytes from offset o up to the first zero byte, the zero not included
StringAt(ro, o) == SubSeq(ro, o + 1, FirstZero(ro, o))

\* C27, as stated: PRTS with offset o outputs exactly the bytes of the read-only
\* buffer from index o up to the first zero byte at or after o, and changes no
\* register, flag, heap or read-only byte.
C27_PrtsPrintsUpToTheFirstZero ==
    [][ (Decodes("PRTS") /\ panic' = "none") =>
          /\ stdout' = Append(stdout, StringAt(vm.ro_data, PrtsOffset))
          /\ vm' = [vm EXCEPT !.pc = Usize(vm.pc[2] + 3)]
      ]_vars

\* C27, amended: PRTS with offset o outputs the bytes from index o up to the first
\* zero byte at or after o when they are valid UTF-8 and nothing when they are not;
\* it needs no byte behind that zero (the step does the same on the buffer cut off
\* behind it), panics instead of reading outside the buffer when there is no such
\* zero, and changes no register, flag, heap or read-only byte.
C27_PrtsPrintsTheValidStringUpToTheFirstZero ==
    [][ (Decodes("PRTS") /\ InProgram(vm, vm.pc[2] + 2)) =>
          IF ZerosFrom(vm.ro_data, PrtsOffset) = {}
          THEN /\ panic' = "ro_data_index"
               /\ stdout' = stdout
               /\ vm' = vm
          ELSE LET s == StringAt(vm.ro_data, PrtsOffset)
                   cut == [vm EXCEPT !.ro_data =
                             SubSeq(@, 1, FirstZero(vm.ro_data, PrtsOffset) + 1)]
               IN  /\ panic' = "none"
                   /\ stdout' = IF ValidUtf8(s) THEN Append(stdout, s) ELSE stdout
                   /\ vm' = [vm EXCEPT !.pc = Usize(vm.pc[2] + 3)]
                   /\ StepOutput(cut) = StepOutput(vm)
                   /\ { o.panic : o \in execute_instruction(cut) } = { "none" }
      ]_vars

\* `prts 3` has printed Hello out of the buffer Hi 0 Hello 0
C27_HelloPrinted ==
    /\ step_op = "PRTS"
    /\ panic = "none"
    /\ vm.ro_data = Hi \o << 0 >> \o Hello \o << 0 >>
    /\ stdout = << Hello >>

(***************************************************************************)
(* Claims about the encoding of instructions                               *)
(***************************************************************************)
\* the operands of an instruction, in order, the absent ones left out
RECURSIVE Present(_)
Present(tokens) ==
    IF tokens = << >> THEN << >>
    ELSE (IF Head(tokens).kind = "None" THEN << >> ELSE << Head(tokens) >>)
           \o Present(Tail(tokens))

Operands(i) == Present(<< i.operand1, i.operand2, i.operand3 >>)

\* C28: for an integer operand v the encoder emits the two bytes [v >> 8, v & 255]
\* of the low 16 bits of v, high byte first, which next_16_bits decodes back to
\* v mod 65536 (to v for v in 0..65535); `load $r #v` assembled and executed leaves
\* registers[r] = v mod 65536.
C28_SixteenBitImmediatesRoundTrip ==
    /\ Assembled =>
         \A k \in 1..Len(Parsed) : \A n \in 1..Len(Operands(Parsed[k])) :
           LET t == Operands(Parsed[k])[n]
               bytes == extract_operand(t, asm.symbols)
           IN  t.kind = "IntegerOperand" =>
                 /\ bytes = << (t.num \div 256) % 256, t.num % 256 >>
                 /\ next_16_bits([NewVM EXCEPT !.program = bytes], 0) = t.num % 65536
    /\ (asm_input \in LoadPrograms /\ step_op = "LOAD" /\ panic = "none") =>
         LET i == asm_input[4].instruction
         IN  /\ SubSeq(vm.program, 69, 72)
                  = << 0, i.operand1.num, (i.operand2.num \div 256) % 256,
                       i.operand2.num % 256 >>
             /\ vm.registers[i.operand1.num] = i.operand2.num % 65536

\* `load $31 #70000` was assembled and executed: the register holds 70000 - 65536
C28_LowSixteenBitsLoaded ==
    /\ asm_input = LoadProgram(NumRegisters - 1, 70000)
    /\ step_op = "LOAD"
    /\ panic = "none"
    /\ vm.registers[NumRegisters - 1] = 4464

\* the bytes the claim lets an operand contribute: one for a register, two for an
\* integer, two for the usage of a label the symbol table holds, none otherwise
OperandWidth(t, symbols) ==
    CASE t.kind = "Register" -> 1
      [] t.kind = "IntegerOperand" -> 2
      [] t.kind = "LabelUsage" ->
           IF \E s \in 1..Len(symbols) : symbols[s].name = t.name THEN 2 ELSE 0
      [] OTHER -> 0

RECURSIVE OperandsWidth(_, _)
OperandsWidth(tokens, symbols) ==
    IF tokens = << >> THEN 0
    ELSE OperandWidth(Head(tokens), symbols) + OperandsWidth(Tail(tokens), symbols)

\* the bytes of the operands whose value is known: the number of a register, the low
\* 16 bits of an integer, the offset of a label
RECURSIVE OperandsBytes(_, _)
OperandsBytes(tokens, symbols) ==
    IF tokens = << >> THEN << >>
    ELSE LET t == Head(tokens)
             offset == symbol_value(symbols, t.name)
             value == IF t.kind = "LabelUsage" /\ offset # {}
                      THEN CHOOSE x \in offset : TRUE ELSE t.num
         IN  (CASE t.kind = "Register" -> << t.num >>
                [] t.kind = "IntegerOperand" \/ (t.kind = "LabelUsage" /\ offset # {}) ->
                     << (value \div 256) % 256, value % 256 >>
                [] OTHER -> << >>) \o OperandsBytes(Tail(tokens), symbols)

\* C29, as stated: to_bytes emits the opcode byte and then one byte per register
\* operand, two per integer operand and two offset bytes per usage of a label found
\* in the symbol table, zero-pads a result of 1 to 3 bytes to 4 and truncates
\* nothing: the width of an opcode instruction is max(4, 1 + operand bytes).
C29_WidthIsOpcodePlusOperandBytes ==
    Assembled =>
      \A k \in 1..Len(Parsed) :
        is_opcode(Parsed[k]) =>
          LET bytes == to_bytes(Parsed[k], asm.symbols)
              width == 1 + OperandsWidth(Operands(Parsed[k]), asm.symbols)
              emitted == << OpcodeIntoU8(Parsed[k].opcode.name) >>
                           \o OperandsBytes(Operands(Parsed[k]), asm.symbols)
          IN  /\ Len(bytes) = IF width < 4 THEN 4 ELSE width
              /\ Len(emitted) = width =>
                   bytes = emitted \o [n \in 1..(Len(bytes) - width) |-> 0]

\* the opcodes execute_instruction has no arm for
ReservedOpcodes ==
    { "NOP", "INC", "DEC", "DJMPE", "OR", "XOR", "NOT", "LUI", "CLOOP", "LOOP",
      "LOADM", "SETM", "PUSH", "POP", "CALL", "RET" }

\* C30, as stated: a step of run() on a reserved opcode that has no arm does not end
\* run(): it returns no halt code, leaves registers, flag and heap as they were, and
\* the loop goes on with the bytes that follow.
C30_ReservedOpcodeDoesNotEndTheRun ==
    [][ (vm_state = "running" /\ \E op \in ReservedOpcodes : Decodes(op)) =>
          /\ panic' = "none"
          /\ vm_state' = "running"
          /\ vm'.events = vm.events
          /\ vm'.registers = vm.registers
          /\ vm'.equal_flag = vm.equal_flag
          /\ vm'.heap = vm.heap
      ]_vars

\* the operand bytes of the instruction the next step decodes
OperandByte(n) == ProgramAt(vm, vm.pc[2] + n)

\* C32: each of EQ, NEQ, GTE, LTE, LT, GT with operand bytes a, b, x sets the
\* equality flag to the signed comparison of registers[a] with registers[b],
\* whatever the flag was, advances pc by 4 bytes, the third byte being read and
\* ignored, and changes nothing else.
C32_ComparisonSetsTheFlagAndAdvancesByFour ==
    [][ \A op \in { "EQ", "NEQ", "GTE", "LTE", "LT", "GT" } :
          (Decodes(op) /\ InProgram(vm, vm.pc[2] + 3)
             /\ OperandByte(1) < NumRegisters /\ OperandByte(2) < NumRegisters) =>
            LET a == vm.registers[OperandByte(1)]
                b == vm.registers[OperandByte(2)]
                flag == (op = "EQ" /\ a = b) \/ (op = "NEQ" /\ a # b)
                          \/ (op = "GTE" /\ ~(a < b)) \/ (op = "LTE" /\ ~(b < a))
                          \/ (op = "LT" /\ a < b) \/ (op = "GT" /\ b < a)
            IN  /\ panic' = "none"
                /\ step_reads' = { vm.pc[2] + n : n \in 0..3 }
                /\ vm' = [vm EXCEPT !.equal_flag = flag, !.pc = Usize(vm.pc[2] + 4)]
      ]_vars

\* `lt $0 $1` has compared -5 with 5 on a VM whose flag was not set: the flag is set
\* and pc is 4
C32_NegativeIsLessThanPositive ==
    /\ step_op = "LT"
    /\ vm.program = << 13, 0, 1, 7 >>
    /\ vm.registers[0] = -5
    /\ vm.registers[1] = 5
    /\ vm.equal_flag
    /\ vm.pc = Usize(4)

\* C33, as stated: with p the address of the byte behind the register operand, JMP r
\* sets pc to registers[r], JMPF r to p + registers[r] and JMPB r to
\* p - registers[r]; none of them changes a register, the flag or the heap.
C33_JumpsSetPcFromTheRegister ==
    [][ \A op \in { "JMP", "JMPF", "JMPB" } :
          (Decodes(op) /\ InProgram(vm, vm.pc[2] + 1) /\ OperandByte(1) < NumRegisters) =>
            LET r == vm.registers[OperandByte(1)]
                p == vm.pc[2] + 2
                by == IF op = "JMPB" THEN 0 - r ELSE r
                base == IF op = "JMP" THEN 0 ELSE p
            IN  /\ panic' = "none"
                /\ by < 0 => base + by >= 0
                /\ vm' = [vm EXCEPT !.pc = IF by < 0 THEN Usize(base + by)
                                           ELSE UAdd(Usize(base), Usize(by))]
      ]_vars

\* C34, as stated: LOAD r, imm16 stores the 16-bit immediate, read high byte first
\* and taken as a signed 16-bit value, sign-extended to 32 bits: the bytes 1, 244
\* leave 500 and the bytes 255, 255 leave -1.
C34_LoadSignExtendsTheImmediate ==
    [][ (Decodes("LOAD") /\ panic' = "none") =>
          LET imm == OperandByte(2) * 256 + OperandByte(3)
          IN  vm'.registers[OperandByte(1)] = IF imm >= 32768 THEN imm - 65536 ELSE imm
      ]_vars

C36_AssembledRegistersAreInRange ==
    panic # "register_index"

\* C37, as stated: no step of the VM reads the program at an index at or past its
\* length: a program that ends in the middle of an instruction, or right after a
\* reserved opcode, ends in the implicit halt instead.
C37_NoReadPastTheEndOfTheProgram ==
    step_op # "none" => panic # "program_index"

\* C38, as stated: a reused Assembler gives the result of a fresh one for a program
\* that declares no label: after assemble(text) returned Ok(bytes), a second
\* assemble(text) on the same Assembler returns Ok with the same bytes.
C38_SecondAssembleGivesTheSameBytes ==
    [][ (asm_result.kind = "Ok" /\ asm.symbols = << >> /\ asm_input' = asm_input) =>
          asm_result' = asm_result ]_vars

\* C35, as stated: the VM consumes exactly the bytes the encoder emits: a step on
\* an encoded instruction (four bytes, padded by to_bytes) that is neither a taken
\* jump nor a halt leaves pc at the first byte of the next instruction.
C35_StepConsumesTheEncodedInstruction ==
    [][ \A op \in { OpcodeNames[i] : i \in 1..Len(OpcodeNames) }
                   \ { "HLT", "IGL", "JMP", "JMPF", "JMPB" } :
          (Decodes(op) /\ vm.pc[1] = 0 /\ vm.pc[2] % 4 = 0 /\ InProgram(vm, vm.pc[2] + 3)
             /\ ~(op = "JMPE" /\ vm.equal_flag) /\ panic' = "none") =>
            vm'.pc = Usize(vm.pc[2] + 4)
      ]_vars

\* C39, as stated: in a program with a valid header in which no JMP, JMPF, JMPB or
\* JMPE is decoded (here: no byte of it is one of these opcodes), every step of
\* run() that does not halt strictly increases pc, and run() ends by returning
\* its terminal event.
C39_RunWithoutJumpsReturnsItsTerminalEvent ==
    [][ ( /\ vm_state = "running"
          /\ verify_header(vm)
          /\ \A i \in 1..Len(vm.program) :
                OpcodeFromU8(vm.program[i]) \notin { "JMP", "JMPF", "JMPB", "JMPE" } ) =>
          /\ vm_state' \in { "running", "idle" }
          /\ vm_state' = "running" => ULess(vm.pc, vm'.pc)
          /\ vm_state' = "idle" => run_result' = vm'.events
      ]_vars

\* the execution state of a VM the claim names
Execution(v) ==
    << v.registers, v.float_registers, v.pc, v.heap, v.equal_flag, v.program, v.events >>

====
